---- MODULE Spec2Model ----
(***************************************************************************)
(* Record parsing and hierarchical consolidation engine of the SPED/EFD    *)
(* extractor (src/sped_parser.py, src/metrics.py).                         *)
(*                                                                         *)
(* Text is modelled by TLA+ strings: a raw line, a token, a column name    *)
(* and a cell value are strings, indexed from 1 (Python indexes from 0).   *)
(* A table (pandas DataFrame) is a record [columns, data]: the ordered     *)
(* column names and the ordered rows, each row a sequence of cell values.  *)
(***************************************************************************)
EXTENDS Integers, Sequences, FiniteSets, TLC

(***************************************************************************)
(* Layout Registry and Group Registry (module-level data of sped_parser).  *)
(***************************************************************************)
LAYOUTS ==
  [
    C010 |-> <<"REG", "CNPJ", "IND_ESCRI">>,
    C100 |-> <<"REG", "IND_OPER", "IND_EMIT", "COD_PART", "COD_MOD", "COD_SIT", "SER", "NUM_DOC",
        "CHV_NFE", "DT_DOC", "DT_E_S", "VL_DOC", "IND_PGTO", "VL_DESC", "VL_ABAT_NT", "VL_MERC",
        "IND_FRT", "VL_FRT", "VL_SEG", "VL_OUT_DA", "VL_BC_ICMS", "VL_ICMS", "VL_BC_ICMS_ST",
        "VL_ICMS_ST", "VL_IPI", "VL_PIS", "VL_COFINS", "VL_PIS_ST", "VL_COFINS_ST">>,
    C170 |-> <<"REG", "NUM_ITEM", "COD_ITEM", "DESCR_COMPL", "QTD", "UNID", "VL_ITEM", "VL_DESC",
        "IND_MOV", "CST_ICMS", "CFOP", "COD_NAT", "VL_BC_ICMS", "ALIQ_ICMS", "VL_ICMS",
        "VL_BC_ICMS_ST", "ALIQ_ST", "VL_ICMS_ST", "IND_APUR", "CST_IPI", "COD_ENQ", "VL_BC_IPI",
        "ALIQ_IPI", "VL_IPI", "CST_PIS", "VL_BC_PIS", "ALIQ_PIS", "QUANT_BC_PIS",
        "ALIQ_PIS_QUANT", "VL_PIS", "CST_COFINS", "VL_BC_COFINS", "ALIQ_COFINS",
        "QUANT_BC_COFINS", "ALIQ_COFINS_QUANT", "VL_COFINS", "COD_CTA">>,
    C190 |-> <<"REG", "CST_ICMS", "CFOP", "ALIQ_ICMS", "VL_OPR", "VL_BC_ICMS", "VL_ICMS",
        "VL_BC_ICMS_ST", "VL_ICMS_ST", "VL_RED_BC", "VL_IPI", "COD_OBS">>,
    C195 |-> <<"REG", "COD_OBS", "TXT_COMPL">>,
    C197 |-> <<"REG", "COD_AJ", "DESCR_COMPL_AJ", "COD_ITEM", "VL_BC_ICMS", "ALIQ_ICMS",
        "VL_ICMS", "VL_OUTROS">>,
    C500 |-> <<"REG", "COD_PART", "COD_MOD", "COD_SIT", "SER", "SUB", "NUM_DOC", "DT_DOC",
        "DT_ENT", "VL_DOC", "VL_ICMS", "COD_INF", "VL_PIS", "VL_COFINS", "CHV_DOCe">>,
    C501 |-> <<"REG", "CST_PIS", "VL_ITEM", "NAT_BC_CRED", "VL_BC_PIS", "ALIQ_PIS", "VL_PIS",
        "COD_CTA">>,
    C505 |-> <<"REG", "CST_COFINS", "VL_ITEM", "NAT_BC_CRED", "VL_BC_COFINS", "ALIQ_COFINS",
        "VL_COFINS", "COD_CTA">>,
    D010 |-> <<"REG", "CNPJ">>,
    D100 |-> <<"REG", "IND_OPER", "IND_EMIT", "COD_PART", "COD_MOD", "COD_SIT", "SER", "SUB",
        "NUM_DOC", "CHV_CTE", "DT_DOC", "DT_A_P", "TP_CT_E", "CHV_CTE_REF", "VL_DOC", "VL_DESC",
        "IND_FRT", "VL_SERV", "VL_BC_ICMS", "VL_ICMS", "VL_NT", "COD_INF", "COD_CTA",
        "COD_MUN_ORIG", "COD_MUN_DEST">>,
    D170 |-> <<"REG", "COD_ITEM", "DESCR_COMPL", "QTD", "UNID", "VL_ITEM", "VL_DESC", "IND_MOV",
        "CST_ICMS", "CFOP", "COD_NAT", "VL_BC_ICMS", "ALIQ_ICMS", "VL_ICMS", "VL_BC_ICMS_ST",
        "ALIQ_ST", "VL_ICMS_ST", "IND_APUR", "COD_CTA">>,
    D190 |-> <<"REG", "CST_ICMS", "CFOP", "ALIQ_ICMS", "VL_OPR", "VL_BC_ICMS", "VL_ICMS",
        "VL_RED_BC", "COD_OBS">>,
    D101 |-> <<"REG", "IND_NAT_FRT", "VL_ITEM", "CST_PIS", "NAT_BC_CRED", "VL_BC_PIS",
        "ALIQ_PIS", "VL_PIS", "COD_CTA">>,
    D105 |-> <<"REG", "IND_NAT_FRT", "VL_ITEM", "CST_COFINS", "NAT_BC_CRED", "VL_BC_COFINS",
        "ALIQ_COFINS", "VL_COFINS", "COD_CTA">>,
    D500 |-> <<"REG", "IND_OPER", "IND_EMIT", "COD_PART", "COD_MOD", "COD_SIT", "SER", "SUB",
        "NUM_DOC", "DT_DOC", "DT_A_P", "VL_DOC", "VL_DESC", "VL_SERV", "VL_SERV_NT", "VL_TERC",
        "VL_DA", "VL_BC_ICMS", "VL_ICMS", "COD_INF", "VL_PIS", "VL_COFINS", "CHV_DOCe">>,
    D501 |-> <<"REG", "CST_PIS", "VL_ITEM", "NAT_BC_CRED", "VL_BC_PIS", "ALIQ_PIS", "VL_PIS",
        "COD_CTA">>,
    D505 |-> <<"REG", "CST_COFINS", "VL_ITEM", "NAT_BC_CRED", "VL_BC_COFINS", "ALIQ_COFINS",
        "VL_COFINS", "COD_CTA">>,
    D700 |-> <<"REG", "IND_OPER", "IND_EMIT", "COD_PART", "COD_MOD", "COD_SIT", "SER", "NUM_DOC",
        "DT_DOC", "DT_E_S", "VL_DOC", "VL_DESC", "VL_SERV", "VL_SERV_NT", "VL_TERC", "VL_DA",
        "VL_BC_ICMS", "VL_ICMS", "COD_INF", "VL_PIS", "VL_COFINS", "CHV_DOCe", "FIN_DOCe",
        "TIP_FAT", "COD_MOD_DOC_REF", "CHV_DOCe_REF", "HASH_DOC_REF", "SER_DOC_REF",
        "NUM_DOC_REF", "MES_DOC_REF", "COD_MUN_DEST", "DED">>,
    A001 |-> <<"REG", "IND_MOV">>,
    A010 |-> <<"REG", "CNPJ">>,
    A100 |-> <<"REG", "IND_OPER", "IND_EMIT", "COD_PART", "COD_SIT", "SER", "SUB", "NUM_DOC",
        "CHV_NFSE", "DT_DOC", "DT_EXE_SERV", "VL_DOC", "IND_PGTO", "VL_DESC", "VL_BC_PIS",
        "VL_PIS", "VL_BC_COFINS", "VL_COFINS", "VL_PIS_RET", "VL_COFINS_RET", "VL_ISS">>,
    F001 |-> <<"REG", "IND_MOV">>,
    F010 |-> <<"REG", "CNPJ">>,
    F100 |-> <<"REG", "IND_OPER", "COD_PART", "COD_ITEM", "DT_OPER", "VL_OPER", "CST_PIS",
        "VL_BC_PIS", "ALIQ_PIS", "VL_PIS", "CST_COFINS", "VL_BC_COFINS", "ALIQ_COFINS",
        "VL_COFINS", "NAT_BC_CRED", "IND_ORIG_CRED", "COD_CTA", "COD_CCUS", "DESC_COMPL">>,
    F111 |-> <<"REG", "NUM_PROC", "IND_PROC">>,
    M001 |-> <<"REG", "IND_MOV">>,
    M100 |-> <<"REG", "COD_CRED", "IND_CRED_ORI", "VL_BC_PIS", "ALIQ_PIS", "QUANT_BC_PIS",
        "ALIQ_PIS_QUANT", "VL_CRED", "VL_AJUS_ACRES", "VL_AJUS_REDUC", "VL_CRED_DIF",
        "VL_CRED_DISP", "IND_DESC_CRED", "VL_CRED_DESC", "SLD_CRED">>,
    M105 |-> <<"REG", "NAT_BC_CRED", "CST_PIS", "VL_BC_PIS_TOT", "VL_BC_PIS_CUM", "VL_BC_PIS_NC",
        "VL_BC_PIS", "QUANT_BC_PIS_TOT", "QUANT_BC_PIS", "DESC_CRED">>,
    M110 |-> <<"REG", "IND_AJ", "VL_AJ", "COD_AJ", "NUM_DOC", "DESCR_AJ", "DT_REF">>,
    M115 |-> <<"REG", "DET_VALOR_AJ", "CST_PIS", "DET_BC_CRED", "DET_ALIQ", "DT_OPER_AJ",
        "DESC_AJ", "COD_CTA", "INFO_COMPL">>,
    E001 |-> <<"REG", "IND_DAD">>,
    E100 |-> <<"REG", "DT_INI", "DT_FIN">>,
    E110 |-> <<"REG", "VL_TOT_DEBITOS", "VL_AJ_DEBITOS", "VL_TOT_AJ_DEBITOS", "VL_ESTORNOS_CRED",
        "VL_TOT_CREDITOS", "VL_AJ_CREDITOS", "VL_TOT_AJ_CREDITOS", "VL_ESTORNOS_DEB",
        "VL_SLD_CREDOR_ANT", "VL_SLD_APURADO", "VL_TOT_DED", "VL_ICMS_RECOLHER",
        "VL_SLD_CREDOR_TRANSPORTAR", "DEB_ESP">>,
    E111 |-> <<"REG", "COD_AJ_APUR", "DESCR_COMPL_AJ", "VL_AJ_APUR">>,
    E112 |-> <<"REG", "NUM_DA", "NUM_PROC", "IND_PROC", "PROC", "COD_OBS">>,
    E113 |-> <<"REG", "COD_PART", "COD_MOD", "SER", "SUB", "NUM_DOC", "DT_DOC", "COD_ITEM",
        "VL_AJ_ITEM", "CHV_DOCe">>,
    E115 |-> <<"REG", "COD_INF_ADIC", "VL_INF_ADIC", "DESCR_COMPL_AJ">>,
    E116 |-> <<"REG", "COD_OR", "VL_OR", "DT_VCTO", "COD_REC", "NUM_PROC", "IND_PROC", "PROC",
        "TXT_COMPL", "MES_REF">>
  ]

\* Campos numericos por registro.
NUMERIC_COLUMNS ==
  [
    C100 |-> <<"VL_DOC", "VL_DESC", "VL_ABAT_NT", "VL_MERC", "VL_FRT", "VL_SEG", "VL_OUT_DA",
        "VL_BC_ICMS", "VL_ICMS", "VL_BC_ICMS_ST", "VL_ICMS_ST", "VL_IPI", "VL_PIS", "VL_COFINS",
        "VL_PIS_ST", "VL_COFINS_ST">>,
    C170 |-> <<"QTD", "VL_ITEM", "VL_DESC", "VL_BC_ICMS", "ALIQ_ICMS", "VL_ICMS",
        "VL_BC_ICMS_ST", "ALIQ_ST", "VL_ICMS_ST", "VL_BC_IPI", "ALIQ_IPI", "VL_IPI", "VL_BC_PIS",
        "ALIQ_PIS", "QUANT_BC_PIS", "ALIQ_PIS_QUANT", "VL_PIS", "VL_BC_COFINS", "ALIQ_COFINS",
        "QUANT_BC_COFINS", "ALIQ_COFINS_QUANT", "VL_COFINS">>,
    C190 |-> <<"ALIQ_ICMS", "VL_OPR", "VL_BC_ICMS", "VL_ICMS", "VL_BC_ICMS_ST", "VL_ICMS_ST",
        "VL_RED_BC", "VL_IPI">>,
    C197 |-> <<"VL_BC_ICMS", "ALIQ_ICMS", "VL_ICMS", "VL_OUTROS">>,
    D100 |-> <<"VL_DOC", "VL_DESC", "VL_SERV", "VL_BC_ICMS", "VL_ICMS", "VL_NT">>,
    D170 |-> <<"QTD", "VL_ITEM", "VL_DESC", "VL_BC_ICMS", "ALIQ_ICMS", "VL_ICMS",
        "VL_BC_ICMS_ST", "ALIQ_ST", "VL_ICMS_ST">>,
    D190 |-> <<"ALIQ_ICMS", "VL_OPR", "VL_BC_ICMS", "VL_ICMS", "VL_RED_BC">>,
    D101 |-> <<"VL_ITEM", "VL_BC_PIS", "ALIQ_PIS", "VL_PIS">>,
    D105 |-> <<"VL_ITEM", "VL_BC_COFINS", "ALIQ_COFINS", "VL_COFINS">>,
    A100 |-> <<"VL_DOC", "VL_DESC", "VL_BC_PIS", "VL_PIS", "VL_BC_COFINS", "VL_COFINS",
        "VL_PIS_RET", "VL_COFINS_RET", "VL_ISS">>,
    F100 |-> <<"VL_OPER", "VL_BC_PIS", "ALIQ_PIS", "VL_PIS", "VL_BC_COFINS", "ALIQ_COFINS",
        "VL_COFINS">>,
    M100 |-> <<"VL_BC_PIS", "ALIQ_PIS", "QUANT_BC_PIS", "ALIQ_PIS_QUANT", "VL_CRED",
        "VL_AJUS_ACRES", "VL_AJUS_REDUC", "VL_CRED_DIF", "VL_CRED_DISP", "VL_CRED_DESC",
        "SLD_CRED">>,
    M105 |-> <<"VL_BC_PIS_TOT", "VL_BC_PIS_CUM", "VL_BC_PIS_NC", "VL_BC_PIS", "QUANT_BC_PIS_TOT",
        "QUANT_BC_PIS">>,
    M110 |-> <<"VL_AJ">>,
    M115 |-> <<"DET_VALOR_AJ", "DET_BC_CRED", "DET_ALIQ">>,
    E110 |-> <<"VL_TOT_DEBITOS", "VL_AJ_DEBITOS", "VL_TOT_AJ_DEBITOS", "VL_ESTORNOS_CRED",
        "VL_TOT_CREDITOS", "VL_AJ_CREDITOS", "VL_TOT_AJ_CREDITOS", "VL_ESTORNOS_DEB",
        "VL_SLD_CREDOR_ANT", "VL_SLD_APURADO", "VL_TOT_DED", "VL_ICMS_RECOLHER",
        "VL_SLD_CREDOR_TRANSPORTAR", "DEB_ESP">>,
    E111 |-> <<"VL_AJ_APUR">>,
    E113 |-> <<"VL_AJ_ITEM">>,
    E115 |-> <<"VL_INF_ADIC">>,
    E116 |-> <<"VL_OR">>,
    C500 |-> <<"VL_DOC", "VL_ICMS", "VL_PIS", "VL_COFINS">>,
    C501 |-> <<"VL_ITEM", "VL_BC_PIS", "ALIQ_PIS", "VL_PIS">>,
    C505 |-> <<"VL_ITEM", "VL_BC_COFINS", "ALIQ_COFINS", "VL_COFINS">>,
    D500 |-> <<"VL_DOC", "VL_DESC", "VL_SERV", "VL_SERV_NT", "VL_TERC", "VL_DA", "VL_BC_ICMS",
        "VL_ICMS", "VL_PIS", "VL_COFINS">>,
    D501 |-> <<"VL_ITEM", "VL_BC_PIS", "ALIQ_PIS", "VL_PIS">>,
    D505 |-> <<"VL_ITEM", "VL_BC_COFINS", "ALIQ_COFINS", "VL_COFINS">>,
    D700 |-> <<"VL_DOC", "VL_DESC", "VL_SERV", "VL_SERV_NT", "VL_TERC", "VL_DA", "VL_BC_ICMS",
        "VL_ICMS", "VL_PIS", "VL_COFINS", "DED">>
  ]

\* (pai, filhos, indice_pai, indice_header, registro_header), by group name.
GROUPS ==
  [
    C    |-> [parent |-> "C100", children |-> <<"C170", "C190", "C195", "C197">>,
              parent_idx_name |-> "C100_INDEX", header_idx_name |-> "C010_INDEX", header |-> "C010"],
    D    |-> [parent |-> "D100", children |-> <<"D170", "D190", "D101", "D105">>,
              parent_idx_name |-> "D100_INDEX", header_idx_name |-> "D010_INDEX", header |-> "D010"],
    A    |-> [parent |-> "A100", children |-> <<>>,
              parent_idx_name |-> "A100_INDEX", header_idx_name |-> "A010_INDEX", header |-> "A010"],
    F    |-> [parent |-> "F100", children |-> <<"F111">>,
              parent_idx_name |-> "F100_INDEX", header_idx_name |-> "F010_INDEX", header |-> "F010"],
    E    |-> [parent |-> "E110", children |-> <<"E111", "E112", "E113", "E115", "E116">>,
              parent_idx_name |-> "E110_INDEX", header_idx_name |-> "E100_INDEX", header |-> "E100"],
    C500 |-> [parent |-> "C500", children |-> <<"C501", "C505">>,
              parent_idx_name |-> "C500_INDEX", header_idx_name |-> "C010_INDEX", header |-> "C010"],
    D500 |-> [parent |-> "D500", children |-> <<"D501", "D505">>,
              parent_idx_name |-> "D500_INDEX", header_idx_name |-> "D010_INDEX", header |-> "D010"],
    D700 |-> [parent |-> "D700", children |-> <<>>,
              parent_idx_name |-> "D700_INDEX", header_idx_name |-> "D010_INDEX", header |-> "D010"]
  ]

\* Iteration order of the GROUPS dictionary (insertion order).
GroupOrder == <<"C", "D", "A", "F", "E", "C500", "D500", "D700">>

(***************************************************************************)
(* Bounds of the model.                                                    *)
(***************************************************************************)
\* Longest input file, in lines, of the line-handling scenario.
MaxLines == 4
\* Longest input file, in lines, of the join scenario.
MaxJoinLines == 6

(***************************************************************************)
(* Text helpers (Python str methods).                                      *)
(***************************************************************************)
\* The delimiter of the format.
PIPE == "|"

\* The null marker of a table cell (NaN).  Every cell value read from a file
\* is a token, and no token holds the delimiter, so this value is no token.
NaN == "|NaN|"

Whitespace == {" ", "\t", "\n", "\r"}

CharAt(s, i) == SubSeq(s, i, i)

\* s.startswith(p)
StartsWith(s, p) == Len(s) >= Len(p) /\ SubSeq(s, 1, Len(p)) = p

\* not s.strip()
IsBlank(s) == \A i \in 1..Len(s) : CharAt(s, i) \in Whitespace

\* s.rstrip('\r\n')
RECURSIVE RStripEol(_)
RStripEol(s) ==
  IF Len(s) > 0 /\ CharAt(s, Len(s)) \in {"\r", "\n"}
    THEN RStripEol(SubSeq(s, 1, Len(s) - 1))
    ELSE s

\* s.split(d) for a one-character d
RECURSIVE Split(_, _)
Split(s, d) ==
  IF \E i \in 1..Len(s) : CharAt(s, i) = d
    THEN LET i == CHOOSE k \in 1..Len(s) :
                    /\ CharAt(s, k) = d
                    /\ \A j \in 1..(k - 1) : CharAt(s, j) # d
         IN  <<SubSeq(s, 1, i - 1)>> \o Split(SubSeq(s, i + 1, Len(s)), d)
    ELSE <<s>>

\* str(n) for an integer n
RECURSIVE NatStr(_)
NatStr(n) ==
  LET digit == CharAt("0123456789", (n % 10) + 1)
  IN  IF n < 10 THEN digit ELSE NatStr(n \div 10) \o digit

ToStr(n) == IF n < 0 THEN "-" \o NatStr(-n) ELSE NatStr(n)

UpperCase == "ABCDEFGHIJKLMNOPQRSTUVWXYZ"
LowerCase == "abcdefghijklmnopqrstuvwxyz"

\* c.lower() for one ASCII character
LowerChar(c) ==
  IF \E i \in 1..Len(UpperCase) : CharAt(UpperCase, i) = c
    THEN CharAt(LowerCase, CHOOSE i \in 1..Len(UpperCase) : CharAt(UpperCase, i) = c)
    ELSE c

\* s.lower(), for ASCII text (the two halves of s are lowered in turn)
RECURSIVE Lower(_)
Lower(s) ==
  IF Len(s) = 0 THEN ""
  ELSE IF Len(s) = 1 THEN LowerChar(s)
  ELSE Lower(SubSeq(s, 1, Len(s) \div 2)) \o Lower(SubSeq(s, (Len(s) \div 2) + 1, Len(s)))

\* r, with v evaluated first: TLC evaluates the arguments of an operator when
\* they are first used, and the loops below hand an accumulated value from
\* one iteration to the next.
Then(v, r) == IF v = v THEN r ELSE r

\* The elements of a sequence, as a set.
Range(q) == {q[i] : i \in 1..Len(q)}

\* n copies of v
Repeat(v, n) == [i \in 1..n |-> v]

(***************************************************************************)
(* Line Tokenizer.                                                         *)
(***************************************************************************)
\* parts[1:] when the first token is empty
DropLeadingEmpty(parts) ==
  IF Len(parts) > 0 /\ parts[1] = "" THEN Tail(parts) ELSE parts

\* parts[:-1] when the last token is empty
DropTrailingEmpty(parts) ==
  IF Len(parts) > 0 /\ parts[Len(parts)] = ""
    THEN SubSeq(parts, 1, Len(parts) - 1) ELSE parts

\* parse_sped_line keeping no empty token
parse_sped_line_no_empty(line) ==
  SelectSeq(Split(RStripEol(line), PIPE), LAMBDA part : part # "")

parse_sped_line(line) ==
  \* Remove pipe inicial se existir, remove pipe final se existir
  DropTrailingEmpty(DropLeadingEmpty(Split(RStripEol(line), PIPE)))

\* _pad_line with the truncation left out: a line with extra tokens keeps them
pad_line_untruncated(layouts, raw_line, registro) ==
  LET parts == parse_sped_line(raw_line)
  IN  IF registro \notin DOMAIN layouts THEN parts
      ELSE LET expected_len == Len(layouts[registro])
           IN  IF Len(parts) < expected_len
                 THEN parts \o Repeat("", expected_len - Len(parts))
                 ELSE parts

\* SpedParser._pad_line under the layouts `layouts`
pad_line(layouts, raw_line, registro) ==
  LET parts == parse_sped_line(raw_line)
  IN  IF registro \notin DOMAIN layouts THEN parts
      ELSE LET expected_len == Len(layouts[registro])
               padded == IF Len(parts) < expected_len
                           THEN parts \o Repeat("", expected_len - Len(parts))
                           ELSE parts
           IN  SubSeq(padded, 1, expected_len)

(***************************************************************************)
(* Relationship Indexer: the index actions derived from the groups at      *)
(* construction time.  record_actions maps a record code to its ordered    *)
(* list of actions [type, key, col].                                       *)
(***************************************************************************)
\* record_actions with the entry of `code` created when it is missing
EnsureEntry(ra, code) == IF code \in DOMAIN ra THEN ra ELSE ra @@ (code :> <<>>)

\* AddAction without the test for an action of the same type and key
AddActionAlways(ra, code, action) ==
  [EnsureEntry(ra, code) EXCEPT ![code] = Append(@, action)]

\* Append `action` to the list of `code` unless an action of the same type
\* and key is there.
AddAction(ra, code, action) ==
  LET ra1 == EnsureEntry(ra, code)
  IN  IF \E i \in 1..Len(ra1[code]) :
            ra1[code][i].type = action.type /\ ra1[code][i].key = action.key
        THEN ra1
        ELSE [ra1 EXCEPT ![code] = Append(@, action)]

RECURSIVE AddChildren(_, _, _, _)
AddChildren(ra, children, parent_key, parent_idx_name) ==
  IF children = <<>> THEN ra
  ELSE LET ra1 == AddAction(ra, Head(children),
                            [type |-> "read", key |-> parent_key, col |-> parent_idx_name])
       IN  Then(ra1, AddChildren(ra1, Tail(children), parent_key, parent_idx_name))

\* One iteration of the loop over the groups.
AddGroup(ra, g) ==
  LET parent_key == Lower(g.parent)
      header_key == Lower(g.header)
      \* Pai incrementa seu proprio indice
      ra1 == AddAction(ra, g.parent,
                       [type |-> "increment", key |-> parent_key, col |-> g.parent_idx_name])
      \* Pai le indice do header (se existir e for diferente)
      ra2 == IF g.header # "" /\ g.header # g.parent
               THEN AddAction(ra1, g.parent,
                              [type |-> "read", key |-> header_key, col |-> g.header_idx_name])
               ELSE ra1
      \* Header incrementa seu proprio indice
      ra3 == IF g.header # ""
               THEN AddAction(ra2, g.header,
                              [type |-> "increment", key |-> header_key, col |-> g.header_idx_name])
               ELSE ra2
  IN  Then(ra3, AddChildren(ra3, g.children, parent_key, g.parent_idx_name))

RECURSIVE DeriveActions(_, _)
DeriveActions(groups, order) ==
  IF order = <<>> THEN <<>>
  ELSE LET ra == DeriveActions(groups, SubSeq(order, 1, Len(order) - 1))
       IN  Then(ra, AddGroup(ra, groups[order[Len(order)]]))

\* The counters started at 0 instead of -1
InitialIndicesFromZero ==
  [k \in {"c010", "c100", "c500", "d010", "d100", "d500", "d700", "a010", "a100",
          "f010", "f100", "e100", "e110", "h001", "h005", "k001", "k100",
          "g001", "g110", "m001", "m100", "m500", "0000"} |-> 0]

\* Indices de controle por bloco, as set by the constructor
InitialIndices ==
  [k \in {"c010", "c100", "c500", "d010", "d100", "d500", "d700", "a010", "a100",
          "f010", "f100", "e100", "e110", "h001", "h005", "k001", "k100",
          "g001", "g110", "m001", "m100", "m500", "0000"} |-> -1]

(***************************************************************************)
(* Metrics Collector (ProcessingMetrics).                                  *)
(***************************************************************************)
\* d[k] += 1 on a defaultdict(int)
Bump(d, k) == IF k \in DOMAIN d THEN [d EXCEPT ![k] = @ + 1] ELSE d @@ (k :> 1)

NewMetrics ==
  [total_lines |-> 0, processed_lines |-> 0, error_lines |-> 0, skipped_lines |-> 0,
   registros_por_tipo |-> <<>>, erros_por_tipo |-> <<>>, warnings |-> <<>>]

\* The number of warnings the list keeps
WarningCap == 100

\* add_warning discarding the newest warning of a full list
add_warning_drop_newest(m, warning) ==
  [m EXCEPT !.warnings = IF Len(@) + 1 > WarningCap THEN @ ELSE Append(@, warning)]

\* ProcessingMetrics.add_warning: append, then pop(0) beyond the cap
add_warning(m, warning) ==
  [m EXCEPT !.warnings = IF Len(@) + 1 > WarningCap THEN Tail(Append(@, warning))
                                                    ELSE Append(@, warning)]

\* increment_registro without the count of processed lines
increment_registro_type_only(m, tipo_registro) ==
  [m EXCEPT !.registros_por_tipo = Bump(@, tipo_registro)]

\* increment_registro counting the line twice
increment_registro_twice(m, tipo_registro) ==
  [m EXCEPT !.registros_por_tipo = Bump(@, tipo_registro),
            !.processed_lines = @ + 2]

increment_registro(m, tipo_registro) ==
  [m EXCEPT !.registros_por_tipo = Bump(@, tipo_registro),
            !.processed_lines = @ + 1]

\* increment_erro without the count of lines with error
increment_erro_type_only(m, tipo_erro) ==
  [m EXCEPT !.erros_por_tipo = Bump(@, tipo_erro)]

increment_erro(m, tipo_erro) ==
  [m EXCEPT !.erros_por_tipo = Bump(@, tipo_erro),
            !.error_lines = @ + 1]

(***************************************************************************)
(* Record Accumulator.                                                     *)
(***************************************************************************)
\* The loop over the actions with a "read" that advances the counter it reads
RECURSIVE ApplyActionsReadAdvances(_, _)
ApplyActionsReadAdvances(st, actions) ==
  IF actions = <<>> THEN st
  ELSE LET action == Head(actions)
           key == action.key
           cur == IF key \in DOMAIN st.indices THEN st.indices[key] ELSE -1
           idx == (key :> (cur + 1)) @@ st.indices
           next == IF action.type \in {"increment", "read"}
                     THEN [indices |-> idx, parts |-> Append(st.parts, ToStr(idx[key]))]
                     ELSE st
       IN  ApplyActionsReadAdvances(next, Tail(actions))

\* The loop over the actions with a "read" that reports 0 for a counter no
\* row has advanced
RECURSIVE ApplyActionsReadFloor(_, _)
ApplyActionsReadFloor(st, actions) ==
  IF actions = <<>> THEN st
  ELSE LET action == Head(actions)
           key == action.key
           cur == IF key \in DOMAIN st.indices THEN st.indices[key] ELSE -1
           idx == (key :> (cur + 1)) @@ st.indices
           next ==
             IF action.type = "increment"
               THEN [indices |-> idx, parts |-> Append(st.parts, ToStr(idx[key]))]
             ELSE IF action.type = "read"
               THEN [indices |-> st.indices,
                     parts |-> Append(st.parts, ToStr(IF cur < 0 THEN 0 ELSE cur))]
             ELSE st
       IN  ApplyActionsReadFloor(next, Tail(actions))

\* The loop over the actions of one record code: st = [indices, parts].
RECURSIVE ApplyActions(_, _)
ApplyActions(st, actions) ==
  IF actions = <<>> THEN st
  ELSE LET action == Head(actions)
           key == action.key
           next ==
             IF action.type = "increment"
               THEN LET cur == IF key \in DOMAIN st.indices THEN st.indices[key] ELSE -1
                        idx == (key :> (cur + 1)) @@ st.indices
                    IN  [indices |-> idx, parts |-> Append(st.parts, ToStr(idx[key]))]
             ELSE IF action.type = "read"
               THEN LET val == IF key \in DOMAIN st.indices THEN st.indices[key] ELSE -1
                    IN  [indices |-> st.indices, parts |-> Append(st.parts, ToStr(val))]
             ELSE st
       IN  ApplyActions(next, Tail(actions))

\* SpedParser._process_generic: p = [layouts, rows, indices, record_actions]
process_generic(p, registro, raw_line) ==
  LET actions == IF registro \in DOMAIN p.record_actions
                   THEN p.record_actions[registro] ELSE <<>>
      st == ApplyActions([indices |-> p.indices,
                          parts |-> pad_line(p.layouts, raw_line, registro)], actions)
  IN  [rows |-> [p.rows EXCEPT ![registro] = Append(@, st.parts)],
       indices |-> st.indices]

\* raw_line raises SpedParseError in _process_line
LineTooShort(raw_line) == Len(raw_line) < 5

\* The record code of a line
RegistroOf(raw_line) == SubSeq(raw_line, 2, 5)

\* _process_line counting a record only when its code has a layout
process_line_known_only(p, raw_line) ==
  LET registro == RegistroOf(raw_line)
  IN  IF registro \in DOMAIN p.layouts
        THEN [metrics |-> increment_registro(p.metrics, registro)]
             @@ process_generic([layouts |-> p.layouts, rows |-> p.rows,
                                 indices |-> p.indices,
                                 record_actions |-> p.record_actions],
                                registro, raw_line)
        ELSE [rows |-> p.rows, indices |-> p.indices, metrics |-> p.metrics]

\* SpedParser._process_line on a line that does not raise:
\* p = [layouts, rows, indices, metrics, record_actions]
process_line(p, raw_line) ==
  LET registro == RegistroOf(raw_line)
      m == increment_registro(p.metrics, registro)
  IN  IF registro \in DOMAIN p.layouts
        THEN [metrics |-> m]
             @@ process_generic([layouts |-> p.layouts, rows |-> p.rows,
                                 indices |-> p.indices,
                                 record_actions |-> p.record_actions],
                                registro, raw_line)
        ELSE [rows |-> p.rows, indices |-> p.indices, metrics |-> m]

\* The skip test without the test of the leading delimiter
IsSkippedBlankOnly(raw_line) == IsBlank(raw_line)

\* The line is skipped by the loop of parse (blank, or no leading delimiter)
IsSkipped(raw_line) == IsBlank(raw_line) \/ ~StartsWith(raw_line, PIPE)

(***************************************************************************)
(* Tables.                                                                 *)
(***************************************************************************)
\* pd.DataFrame()
EmptyFrame == [columns |-> <<>>, data |-> <<>>]

\* The table of the given columns and rows, with its cells computed: TLC
\* leaves a function constructor unevaluated until it is applied, and a
\* table goes through a chain of operations.
Table(columns, data) ==
  LET df == [columns |-> columns, data |-> data]
  IN  Then(df, df)

\* df.empty
IsEmpty(df) == Len(df.columns) = 0 \/ Len(df.data) = 0

\* SpedParser._get_columns_for_code
get_columns_for_code(layouts, ra, code) ==
  IF code \notin DOMAIN layouts THEN <<>>
  ELSE IF code \in DOMAIN ra
    THEN layouts[code] \o [i \in 1..Len(ra[code]) |-> ra[code][i].col]
    ELSE layouts[code]

\* SpedParser._create_dataframes
create_dataframes(layouts, rs, ra) ==
  [code \in DOMAIN rs |->
     IF rs[code] = <<>>
       THEN [columns |-> layouts[code], data |-> <<>>]
       ELSE [columns |-> get_columns_for_code(layouts, ra, code), data |-> rs[code]]]

\* Position of the column `name` of a table
ColIndex(columns, name) == CHOOSE i \in 1..Len(columns) : columns[i] = name

HasCol(df, name) == name \in Range(df.columns)

\* The value of a table in row r, column col
Cell(df, r, col) == df.data[r][ColIndex(df.columns, col)]

\* The concatenation of a sequence of sequences
RECURSIVE Flatten(_)
Flatten(qs) == IF qs = <<>> THEN <<>> ELSE Head(qs) \o Flatten(Tail(qs))

\* The positions i in 1..n with keep[i], in increasing order
Positions(n, keep) ==
  LET rank == [i \in 1..n |-> Cardinality({j \in 1..i : keep[j]})]
  IN  IF n = 0 THEN <<>>
      ELSE [k \in 1..rank[n] |-> CHOOSE i \in 1..n : keep[i] /\ rank[i] = k]

\* str(v) of a cell value: series.astype(str)
AsStr(v) ==
  IF v = NaN THEN "nan"
  ELSE IF StartsWith(v, "|f|") \/ StartsWith(v, "|t|") THEN SubSeq(v, 4, Len(v))
  ELSE IF v = "|NaT|" THEN "NaT"
  ELSE v

\* df[name] = df[name].astype(str)
ColAsStr(df, name) ==
  Table(df.columns,
        [r \in 1..Len(df.data) |->
           [c \in 1..Len(df.columns) |->
              IF df.columns[c] = name THEN AsStr(df.data[r][c]) ELSE df.data[r][c]]])

\* df[names]: the columns `names`, in that order
SelectCols(df, names) ==
  Table(names,
        [r \in 1..Len(df.data) |->
           [c \in 1..Len(names) |-> df.data[r][ColIndex(df.columns, names[c])]]])

\* A rename that renames nothing
PrefixColsKept(df, names, prefix) == df

\* df.rename(columns={c: prefix + c for c in names})
PrefixCols(df, names, prefix) ==
  Table([c \in 1..Len(df.columns) |->
           IF df.columns[c] \in names THEN prefix \o df.columns[c] ELSE df.columns[c]],
        df.data)

\* A drop whose result is discarded
DropColsDiscarded(df, names) == df

\* df.drop(columns=names, errors='ignore')
DropCols(df, names) ==
  LET kept == Positions(Len(df.columns), [c \in 1..Len(df.columns) |-> df.columns[c] \notin names])
  IN  Table([c \in 1..Len(kept) |-> df.columns[kept[c]]],
            [r \in 1..Len(df.data) |-> [c \in 1..Len(kept) |-> df.data[r][kept[c]]]])

\* An inner join: a left row without a match is dropped
MergeInner(left, right, key) ==
  LET lk == ColIndex(left.columns, key)
      rk == ColIndex(right.columns, key)
      overlap == (Range(left.columns) \cap Range(right.columns)) \ {key}
      others == Positions(Len(right.columns), [c \in 1..Len(right.columns) |-> c # rk])
      lcols == [c \in 1..Len(left.columns) |->
                  IF left.columns[c] \in overlap THEN left.columns[c] \o "_x"
                                                 ELSE left.columns[c]]
      rcols == [c \in 1..Len(others) |->
                  IF right.columns[others[c]] \in overlap
                    THEN right.columns[others[c]] \o "_y"
                    ELSE right.columns[others[c]]]
      matches(lrow) ==
        Positions(Len(right.data),
                  [r \in 1..Len(right.data) |-> right.data[r][rk] = lrow[lk]])
      expand(lrow) ==
        LET ms == matches(lrow)
        IN  [m \in 1..Len(ms) |->
               lrow \o [c \in 1..Len(others) |-> right.data[ms[m]][others[c]]]]
  IN  Table(lcols \o rcols,
            Flatten([r \in 1..Len(left.data) |-> expand(left.data[r])]))

\* left.merge(right, how='left', on=key), both tables holding the column key:
\* every left row, in order, once per right row of equal key (in right order),
\* and once with nulls when no right row matches.  Equal names other than
\* the key get the suffixes _x and _y.
Merge(left, right, key) ==
  LET lk == ColIndex(left.columns, key)
      rk == ColIndex(right.columns, key)
      overlap == (Range(left.columns) \cap Range(right.columns)) \ {key}
      others == Positions(Len(right.columns), [c \in 1..Len(right.columns) |-> c # rk])
      lcols == [c \in 1..Len(left.columns) |->
                  IF left.columns[c] \in overlap THEN left.columns[c] \o "_x"
                                                 ELSE left.columns[c]]
      rcols == [c \in 1..Len(others) |->
                  IF right.columns[others[c]] \in overlap
                    THEN right.columns[others[c]] \o "_y"
                    ELSE right.columns[others[c]]]
      matches(lrow) ==
        Positions(Len(right.data),
                  [r \in 1..Len(right.data) |-> right.data[r][rk] = lrow[lk]])
      expand(lrow) ==
        LET ms == matches(lrow)
        IN  IF ms = <<>>
              THEN <<lrow \o Repeat(NaN, Len(others))>>
              ELSE [m \in 1..Len(ms) |->
                      lrow \o [c \in 1..Len(others) |-> right.data[ms[m]][others[c]]]]
  IN  Table(lcols \o rcols,
            Flatten([r \in 1..Len(left.data) |-> expand(left.data[r])]))

(***************************************************************************)
(* Consolidation (Join) Engine.  An operation that can raise returns       *)
(* [raised, df]: raised tells that an exception left it, df is its result. *)
(***************************************************************************)
\* The body of the loop over the child codes: st = [raised, df]
JoinChild(st, dfs, code, parent_index_col) ==
  IF st.raised THEN st
  ELSE IF code \notin DOMAIN dfs \/ IsEmpty(dfs[code]) THEN st
  \* Se filho nao tem a chave do pai, nao da pra juntar
  ELSE IF ~HasCol(dfs[code], parent_index_col) THEN st
  ELSE LET child == ColAsStr(dfs[code], parent_index_col)
           keep == Positions(Len(child.columns),
                             [c \in 1..Len(child.columns) |->
                                child.columns[c] \notin {"REG", parent_index_col}])
           keep_cols == [c \in 1..Len(keep) |-> child.columns[keep[c]]]
       IN  IF keep_cols = <<>> THEN st
           ELSE LET child_to_merge ==
                      PrefixCols(SelectCols(child, <<parent_index_col>> \o keep_cols),
                                 Range(keep_cols), code \o "_")
                IN  IF ~HasCol(st.df, parent_index_col)
                      THEN [raised |-> TRUE, df |-> st.df]
                      ELSE [raised |-> FALSE,
                            df |-> Merge(st.df, child_to_merge, parent_index_col)]

RECURSIVE JoinChildren(_, _, _, _)
JoinChildren(st, dfs, child_codes, parent_index_col) ==
  IF child_codes = <<>> THEN st
  ELSE LET st1 == JoinChild(st, dfs, Head(child_codes), parent_index_col)
       IN  Then(st1, JoinChildren(st1, dfs, Tail(child_codes), parent_index_col))

\* consolidate_group_new reading the parent's table before it tests that the
\* mapping holds it: a missing parent raises KeyError
consolidate_group_new_unguarded(dfs, parent_code, child_codes, parent_index_col) ==
  IF parent_code \notin DOMAIN dfs
    THEN [raised |-> TRUE, df |-> EmptyFrame]
  ELSE IF IsEmpty(dfs[parent_code])
    THEN [raised |-> FALSE, df |-> EmptyFrame]
    ELSE LET result == IF HasCol(dfs[parent_code], parent_index_col)
                         THEN ColAsStr(dfs[parent_code], parent_index_col)
                         ELSE dfs[parent_code]
         IN  JoinChildren([raised |-> FALSE, df |-> result], dfs, child_codes,
                          parent_index_col)

\* SpedDataProcessor.consolidate_group_new
consolidate_group_new(dfs, parent_code, child_codes, parent_index_col) ==
  IF parent_code \notin DOMAIN dfs \/ IsEmpty(dfs[parent_code])
    THEN [raised |-> FALSE, df |-> EmptyFrame]
    ELSE LET result == IF HasCol(dfs[parent_code], parent_index_col)
                         THEN ColAsStr(dfs[parent_code], parent_index_col)
                         ELSE dfs[parent_code]
         IN  JoinChildren([raised |-> FALSE, df |-> result], dfs, child_codes,
                          parent_index_col)

\* attach_header with an inner join: a row without a header row is dropped
attach_header_inner(df, has_header, header_df, parent_header_index_col, header_prefix) ==
  IF ~has_header \/ IsEmpty(header_df) \/ IsEmpty(df)
    THEN [raised |-> FALSE, df |-> df]
  ELSE IF ~HasCol(header_df, parent_header_index_col) \/ ~HasCol(df, parent_header_index_col)
    THEN [raised |-> TRUE, df |-> df]
  ELSE
    LET keep == Positions(Len(header_df.columns),
                          [c \in 1..Len(header_df.columns) |->
                             header_df.columns[c] \notin {"REG", parent_header_index_col}])
        keep_cols == [c \in 1..Len(keep) |-> header_df.columns[keep[c]]]
        join_df == ColAsStr(
                     PrefixCols(SelectCols(header_df, <<parent_header_index_col>> \o keep_cols),
                                Range(keep_cols), header_prefix),
                     parent_header_index_col)
        merged == MergeInner(ColAsStr(df, parent_header_index_col), join_df,
                        parent_header_index_col)
        \* Reordena colunas (cabecalho primeiro)
        isPrefix == [c \in 1..Len(merged.columns) |-> StartsWith(merged.columns[c], header_prefix)]
        order == Positions(Len(merged.columns), isPrefix)
                   \o Positions(Len(merged.columns),
                                [c \in 1..Len(merged.columns) |-> ~isPrefix[c]])
    IN  [raised |-> FALSE,
         df |-> Table([c \in 1..Len(order) |-> merged.columns[order[c]]],
                      [r \in 1..Len(merged.data) |->
                         [c \in 1..Len(order) |-> merged.data[r][order[c]]]])]

\* SpedDataProcessor.attach_header; has_header tells that header_df is not None
attach_header(df, has_header, header_df, parent_header_index_col, header_prefix) ==
  IF ~has_header \/ IsEmpty(header_df) \/ IsEmpty(df)
    THEN [raised |-> FALSE, df |-> df]
  ELSE IF ~HasCol(header_df, parent_header_index_col) \/ ~HasCol(df, parent_header_index_col)
    THEN [raised |-> TRUE, df |-> df]
  ELSE
    LET keep == Positions(Len(header_df.columns),
                          [c \in 1..Len(header_df.columns) |->
                             header_df.columns[c] \notin {"REG", parent_header_index_col}])
        keep_cols == [c \in 1..Len(keep) |-> header_df.columns[keep[c]]]
        join_df == ColAsStr(
                     PrefixCols(SelectCols(header_df, <<parent_header_index_col>> \o keep_cols),
                                Range(keep_cols), header_prefix),
                     parent_header_index_col)
        merged == Merge(ColAsStr(df, parent_header_index_col), join_df,
                        parent_header_index_col)
        \* Reordena colunas (cabecalho primeiro)
        isPrefix == [c \in 1..Len(merged.columns) |-> StartsWith(merged.columns[c], header_prefix)]
        order == Positions(Len(merged.columns), isPrefix)
                   \o Positions(Len(merged.columns),
                                [c \in 1..Len(merged.columns) |-> ~isPrefix[c]])
    IN  [raised |-> FALSE,
         df |-> Table([c \in 1..Len(order) |-> merged.columns[order[c]]],
                      [r \in 1..Len(merged.data) |->
                         [c \in 1..Len(order) |-> merged.data[r][order[c]]]])]

\* The body of the loop of process_single_file over the groups, for group g
consolidate_one(dfs, g) ==
  LET c == consolidate_group_new(dfs, g.parent, g.children, g.parent_idx_name)
  IN  IF c.raised \/ IsEmpty(c.df) THEN c
      ELSE LET h == attach_header(c.df, g.header \in DOMAIN dfs,
                                  IF g.header \in DOMAIN dfs THEN dfs[g.header] ELSE EmptyFrame,
                                  g.header_idx_name, g.header \o "_")
           IN  IF h.raised THEN h
               ELSE [raised |-> FALSE,
                     df |-> DropCols(h.df, {g.parent_idx_name, g.header_idx_name})]

(***************************************************************************)
(* Numeric/Locale Converter and the record-specific conversions.           *)
(* A converted cell is encoded in a string no token can equal: "|f|" and   *)
(* the canonical decimal of a number, "|t|YYYY-MM-DD" for a date, NaN and  *)
(* "|NaT|" for the nulls.                                                  *)
(***************************************************************************)
Digits == "0123456789"

IsDigit(c) == \E i \in 1..10 : CharAt(Digits, i) = c

IsDigits(s) == \A i \in 1..Len(s) : IsDigit(CharAt(s, i))

DigitVal(c) == (CHOOSE i \in 1..10 : CharAt(Digits, i) = c) - 1

RECURSIVE NatVal(_)
NatVal(s) == IF Len(s) = 0 THEN 0
             ELSE NatVal(SubSeq(s, 1, Len(s) - 1)) * 10 + DigitVal(CharAt(s, Len(s)))

\* s.replace(old, new, regex=False) for a one-character old
RECURSIVE ReplaceChar(_, _, _)
ReplaceChar(s, old, new) ==
  IF Len(s) = 0 THEN ""
  ELSE (IF CharAt(s, 1) = old THEN new ELSE CharAt(s, 1))
         \o ReplaceChar(SubSeq(s, 2, Len(s)), old, new)

RECURSIVE LStrip(_)
LStrip(s) == IF Len(s) > 0 /\ CharAt(s, 1) \in Whitespace
               THEN LStrip(SubSeq(s, 2, Len(s))) ELSE s

RECURSIVE RStrip(_)
RStrip(s) == IF Len(s) > 0 /\ CharAt(s, Len(s)) \in Whitespace
               THEN RStrip(SubSeq(s, 1, Len(s) - 1)) ELSE s

\* s.strip()
Strip(s) == RStrip(LStrip(s))

RECURSIVE DropLeadingZeros(_)
DropLeadingZeros(s) == IF Len(s) > 1 /\ CharAt(s, 1) = "0"
                         THEN DropLeadingZeros(SubSeq(s, 2, Len(s))) ELSE s

RECURSIVE DropTrailingZeros(_)
DropTrailingZeros(s) == IF Len(s) > 1 /\ CharAt(s, Len(s)) = "0"
                          THEN DropTrailingZeros(SubSeq(s, 1, Len(s) - 1)) ELSE s

\* to_numeric that keeps the text it cannot parse (errors='ignore')
to_numeric_ignore(s) ==
  LET signed == Len(s) > 0 /\ CharAt(s, 1) \in {"+", "-"}
      body == IF signed THEN SubSeq(s, 2, Len(s)) ELSE s
      parts == Split(body, ".")
      int == parts[1]
      frac == IF Len(parts) = 2 THEN parts[2] ELSE ""
      wellFormed == /\ Len(parts) <= 2
                    /\ IsDigits(int) /\ IsDigits(frac)
                    /\ Len(int) + Len(frac) > 0
  IN  IF ~wellFormed THEN s
      ELSE "|f|" \o (IF signed /\ CharAt(s, 1) = "-" THEN "-" ELSE "")
                 \o DropLeadingZeros(IF int = "" THEN "0" ELSE int)
                 \o "." \o DropTrailingZeros(IF frac = "" THEN "0" ELSE frac)

\* pd.to_numeric(s, errors='coerce') of one text value: a signed decimal
\* (digits with at most one point) is its number, anything else is NaN.
to_numeric(s) ==
  LET signed == Len(s) > 0 /\ CharAt(s, 1) \in {"+", "-"}
      body == IF signed THEN SubSeq(s, 2, Len(s)) ELSE s
      parts == Split(body, ".")
      int == parts[1]
      frac == IF Len(parts) = 2 THEN parts[2] ELSE ""
      wellFormed == /\ Len(parts) <= 2
                    /\ IsDigits(int) /\ IsDigits(frac)
                    /\ Len(int) + Len(frac) > 0
  IN  IF ~wellFormed THEN NaN
      ELSE "|f|" \o (IF signed /\ CharAt(s, 1) = "-" THEN "-" ELSE "")
                 \o DropLeadingZeros(IF int = "" THEN "0" ELSE int)
                 \o "." \o DropTrailingZeros(IF frac = "" THEN "0" ELSE frac)

\* One cell of convert_numeric_columns: remove the grouping points, turn the
\* decimal comma into a point, strip, convert.
convert_numeric_value(v) ==
  IF v = NaN THEN NaN
  ELSE to_numeric(Strip(ReplaceChar(ReplaceChar(AsStr(v), ".", ""), ",", ".")))

\* convert_numeric_value applied k times to v
RECURSIVE ConvertTimes(_, _)
ConvertTimes(k, v) == IF k = 0 THEN v ELSE convert_numeric_value(ConvertTimes(k - 1, v))

\* convert_numeric_columns(df, columns): the loop converts a column once for
\* each time the list names it, and skips the names the table does not hold
convert_numeric_columns(df, columns) ==
  LET times(name) == Cardinality({i \in 1..Len(columns) : columns[i] = name})
  IN  Table(df.columns,
            [r \in 1..Len(df.data) |->
               [c \in 1..Len(df.columns) |->
                  ConvertTimes(times(df.columns[c]), df.data[r][c])]])

\* The debug messages of convert_numeric_columns(df, columns), in order: one
\* [col, null_count] for each listed column the table holds that has a null
\* after its conversion
numeric_log(df, columns) ==
  LET occurrence(i) == Cardinality({j \in 1..i : columns[j] = columns[i]})
      null_count(i) ==
        Cardinality({r \in 1..Len(df.data) :
                       ConvertTimes(occurrence(i), Cell(df, r, columns[i])) = NaN})
      logged == Positions(Len(columns),
                          [i \in 1..Len(columns) |->
                             HasCol(df, columns[i]) /\ null_count(i) > 0])
  IN  [k \in 1..Len(logged) |->
         [col |-> columns[logged[k]], null_count |-> null_count(logged[k])]]

\* Mapeamentos para conversao de codigos (the labels are written without
\* their accents)
IND_OPER_MAP == [k \in {"0", "1"} |-> IF k = "0" THEN "Entrada" ELSE "Saida"]

IND_EMIT_MAP == [k \in {"0", "1"} |-> IF k = "0" THEN "Emissao propria" ELSE "Terceiros"]

IND_FRT_MAP ==
  [k \in {"0", "1", "2", "9"} |->
     CASE k = "0" -> "Emitente"
       [] k = "1" -> "Destinatario/remetente"
       [] k = "2" -> "Terceiros"
       [] k = "9" -> "Sem cobranca de frete"]

DaysInMonth(y, m) ==
  IF m \in {4, 6, 9, 11} THEN 30
  ELSE IF m = 2 THEN (IF (y % 4 = 0 /\ y % 100 # 0) \/ y % 400 = 0 THEN 29 ELSE 28)
  ELSE 31

\* pd.to_datetime(v, format=..., errors='coerce') of one text value given as
\* its year, month and day digits: a calendar date, or NaT
MakeDate(yyyy, mm, dd) ==
  IF /\ Len(yyyy) = 4 /\ Len(mm) = 2 /\ Len(dd) = 2
     /\ IsDigits(yyyy) /\ IsDigits(mm) /\ IsDigits(dd)
     /\ NatVal(yyyy) >= 1
     /\ NatVal(mm) \in 1..12
     /\ NatVal(dd) \in 1..DaysInMonth(NatVal(yyyy), NatVal(mm))
    THEN "|t|" \o yyyy \o "-" \o mm \o "-" \o dd
    ELSE "|NaT|"

\* format='%Y%m%d'
DateYmd(v) ==
  IF Len(v) = 8 THEN MakeDate(SubSeq(v, 1, 4), SubSeq(v, 5, 6), SubSeq(v, 7, 8)) ELSE "|NaT|"

\* format='%d%m%Y'
DateDmy(v) ==
  IF Len(v) = 8 THEN MakeDate(SubSeq(v, 5, 8), SubSeq(v, 3, 4), SubSeq(v, 1, 2)) ELSE "|NaT|"

\* format='%m%Y%d'
DateMyd(v) ==
  IF Len(v) = 8 THEN MakeDate(SubSeq(v, 3, 6), SubSeq(v, 1, 2), SubSeq(v, 7, 8)) ELSE "|NaT|"

\* s.zfill(n)
RECURSIVE ZFill(_, _)
ZFill(s, n) == IF Len(s) >= n THEN s ELSE ZFill("0" \o s, n)

\* pd.to_datetime(v, format=format, errors='coerce') of one text value
ToDate(v, format) ==
  CASE format = "%Y%m%d" -> DateYmd(v)
    [] format = "%d%m%Y" -> DateDmy(v)
    [] format = "%m%Y%d" -> DateMyd(v)

\* df[name] = df[name].map(m).fillna(df[name]) when the column exists
MapCodes(df, name, m) ==
  IF ~HasCol(df, name) THEN df
  ELSE Table(df.columns,
             [r \in 1..Len(df.data) |->
                [c \in 1..Len(df.columns) |->
                   IF df.columns[c] = name /\ df.data[r][c] \in DOMAIN m
                     THEN m[df.data[r][c]]
                     ELSE df.data[r][c]]])

\* df[new] = pd.to_datetime(df[name], format=format, errors='coerce') when
\* the column name exists: a column is added at the end, or replaced when it
\* is there
AddDateCol(df, name, new, format) ==
  IF ~HasCol(df, name) THEN df
  ELSE IF HasCol(df, new)
    THEN Table(df.columns,
               [r \in 1..Len(df.data) |->
                  [c \in 1..Len(df.columns) |->
                     IF df.columns[c] = new THEN ToDate(Cell(df, r, name), format)
                                            ELSE df.data[r][c]]])
    ELSE Table(Append(df.columns, new),
               [r \in 1..Len(df.data) |->
                  Append(df.data[r], ToDate(Cell(df, r, name), format))])

\* df['MES_REF_DATE'] = pd.to_datetime(df['MES_REF'].str.zfill(6) + '01',
\* format='%m%Y%d', errors='coerce') when the column MES_REF exists
AddMesRefDate(df) ==
  LET date(r) == ToDate(ZFill(Cell(df, r, "MES_REF"), 6) \o "01", "%m%Y%d")
  IN  IF ~HasCol(df, "MES_REF") THEN df
      ELSE IF HasCol(df, "MES_REF_DATE")
        THEN Table(df.columns,
                   [r \in 1..Len(df.data) |->
                      [c \in 1..Len(df.columns) |->
                         IF df.columns[c] = "MES_REF_DATE" THEN date(r) ELSE df.data[r][c]]])
        ELSE Table(Append(df.columns, "MES_REF_DATE"),
                   [r \in 1..Len(df.data) |-> Append(df.data[r], date(r))])

\* SpedDataProcessor._convert_specific_fields
convert_specific_fields(code, df) ==
  LET oper(d) == MapCodes(d, "IND_OPER", IND_OPER_MAP)
      emit(d) == MapCodes(d, "IND_EMIT", IND_EMIT_MAP)
      frt(d)  == MapCodes(d, "IND_FRT", IND_FRT_MAP)
  IN  CASE code = "C100" ->
             AddDateCol(AddDateCol(frt(emit(oper(df))), "DT_DOC", "DT_DOC_DATE", "%Y%m%d"),
                        "DT_E_S", "DT_E_S_DATE", "%Y%m%d")
        [] code = "D100" ->
             AddDateCol(AddDateCol(frt(emit(oper(df))), "DT_DOC", "DT_DOC_DATE", "%d%m%Y"),
                        "DT_A_P", "DT_A_P_DATE", "%d%m%Y")
        [] code = "A100" ->
             AddDateCol(AddDateCol(df, "DT_DOC", "DT_DOC_DATE", "%Y%m%d"),
                        "DT_EXE_SERV", "DT_EXE_SERV_DATE", "%Y%m%d")
        [] code = "E100" ->
             AddDateCol(AddDateCol(df, "DT_INI", "DT_INI_DATE", "%Y%m%d"),
                        "DT_FIN", "DT_FIN_DATE", "%Y%m%d")
        [] code = "E113" -> AddDateCol(df, "DT_DOC", "DT_DOC_DATE", "%Y%m%d")
        [] code = "E116" ->
             AddMesRefDate(AddDateCol(df, "DT_VCTO", "DT_VCTO_DATE", "%Y%m%d"))
        [] code = "C500" ->
             AddDateCol(AddDateCol(df, "DT_DOC", "DT_DOC_DATE", "%Y%m%d"),
                        "DT_ENT", "DT_ENT_DATE", "%Y%m%d")
        [] code = "D500" ->
             AddDateCol(AddDateCol(emit(oper(df)), "DT_DOC", "DT_DOC_DATE", "%Y%m%d"),
                        "DT_A_P", "DT_A_P_DATE", "%Y%m%d")
        [] code = "D700" ->
             AddDateCol(AddDateCol(emit(oper(df)), "DT_DOC", "DT_DOC_DATE", "%Y%m%d"),
                        "DT_E_S", "DT_E_S_DATE", "%Y%m%d")
        [] OTHER -> df

\* SpedDataProcessor.convert_dataframes
convert_dataframes(dfs) ==
  [code \in DOMAIN dfs |->
     IF IsEmpty(dfs[code]) THEN dfs[code]
     ELSE convert_specific_fields(
            code,
            IF code \in DOMAIN NUMERIC_COLUMNS
              THEN convert_numeric_columns(dfs[code], NUMERIC_COLUMNS[code])
              ELSE dfs[code])]

\* The debug messages of convert_dataframes, by the record code of the table
\* whose conversion wrote them
conversion_messages(dfs) ==
  [code \in {c \in DOMAIN dfs : ~IsEmpty(dfs[c]) /\ c \in DOMAIN NUMERIC_COLUMNS} |->
     numeric_log(dfs[code], NUMERIC_COLUMNS[code])]

(***************************************************************************)
(* The input: the lines of a file, as handed out by iterating it.          *)
(***************************************************************************)
\* The n-th line of a file, of a given kind.  Its second token is n, so that
\* the content of a line tells its position in the file.
LineText(kind, n) ==
  CASE kind = "H"      -> "|C010|" \o ToStr(n) \o "|\n"
    [] kind = "P"      -> "|C100|" \o ToStr(n) \o "|\n"
    [] kind = "A"      -> "|C195|" \o ToStr(n) \o "|\n"
    [] kind = "B"      -> "|C197|" \o ToStr(n) \o "|\n"
    [] kind = "E"      -> "|E110|" \o ToStr(n) \o "|\n"
    [] kind = "D"      -> "|D010|" \o ToStr(n) \o "|\n"
    [] kind = "long"   -> "|C195|" \o ToStr(n) \o "|a|b|c|\n"
    [] kind = "unk"    -> "|Z999|" \o ToStr(n) \o "|\n"
    [] kind = "short"  -> "|C1\n"
    [] kind = "four"   -> "|C10\n"
    [] kind = "crlf"   -> "|C1\r\n"
    [] kind = "blank"  -> "  \n"
    [] kind = "nopipe" -> "C100|" \o ToStr(n) \o "|\n"
    [] kind = "glued"  -> "|C100X|" \o ToStr(n) \o "|\n"

\* Line handling: a parent, a child with extra tokens, an unknown code, a
\* line too short, a blank line, a line without the leading delimiter.
LineKinds == {"P", "long", "unk", "short", "blank", "nopipe"}
\* Joins: a parent and two of its child codes.
JoinKinds == {"P", "A", "B"}
\* Headers: a header, its parent, a child, and the parent of another group.
HeaderKinds == {"H", "P", "A", "E"}

\* Short lines: a parent, and lines of 3 and 4 characters before their
\* terminator, one of them ended by CR LF.
ShortKinds == {"P", "short", "four", "crlf"}

\* Shared headers: the headers of the groups C, C500 and of D, D500, D700,
\* and a parent.
SharedKinds == {"H", "D", "P"}

\* The file whose lines are of the kinds ks, in that order
FileOfKinds(ks) == [i \in 1..Len(ks) |-> LineText(ks[i], i)]

FilesOf(kinds, maxLen) ==
  UNION {{FileOfKinds(ks) : ks \in [1..n -> kinds]} : n \in 0..maxLen}

\* The groups consolidate_group_new is called for directly
CallGroups == {"C", "E"}

(***************************************************************************)
(* State.                                                                  *)
(***************************************************************************)
VARIABLES
  file,          \* the lines of the input file
  strict_mode,   \* validation.strict_mode of the configuration
  pc,            \* position of the caller
  line_number,   \* number of lines the loop of parse has visited
  layouts,       \* SpedParser.layouts
  numeric_columns, \* SpedParser.numeric_columns
  groups,        \* SpedParser.groups
  group_order,   \* iteration order of SpedParser.groups
  rows,          \* SpedParser.rows
  indices,       \* SpedParser.indices
  record_actions, \* SpedParser.record_actions
  metrics,       \* SpedParser.metrics
  dataframes,    \* the tables returned by parse, then converted
  conversion_log, \* the debug messages of the numeric conversion
  consolidated,  \* the result of process_single_file, by sheet name
  call,          \* the arguments of a direct call of an operation
  joined,        \* the result of that call
  input_paths,   \* the files process_multiple_files is given
  results,       \* the results of the files it has processed
  combined       \* what it returns

vars == <<file, strict_mode, pc, line_number, layouts, numeric_columns, groups, group_order,
          rows, indices, record_actions, metrics, dataframes, conversion_log, consolidated,
          call, joined, input_paths, results, combined>>

\* The configuration of a parser
Registries == <<layouts, numeric_columns, groups, group_order>>

\* The list of files of process_multiple_files
Batch == <<input_paths, results, combined>>

\* The attributes SpedParser.__init__ sets, for the registries it is given
SpedParser(ls, ns, gs, order) ==
  [layouts |-> ls, numeric_columns |-> ns, groups |-> gs, group_order |-> order,
   rows |-> [code \in DOMAIN ls |-> <<>>],
   indices |-> InitialIndices,
   record_actions |-> DeriveActions(gs, order),
   metrics |-> NewMetrics]

\* The parser is the newly constructed parser p
IsParser(p) ==
  /\ layouts = p.layouts
  /\ numeric_columns = p.numeric_columns
  /\ groups = p.groups
  /\ group_order = p.group_order
  /\ rows = p.rows
  /\ indices = p.indices
  /\ record_actions = p.record_actions
  /\ metrics = p.metrics

\* The parser becomes the newly constructed parser p
BecomesParser(p) ==
  /\ layouts' = p.layouts
  /\ numeric_columns' = p.numeric_columns
  /\ groups' = p.groups
  /\ group_order' = p.group_order
  /\ rows' = p.rows
  /\ indices' = p.indices
  /\ record_actions' = p.record_actions
  /\ metrics' = p.metrics

\* Nothing has been parsed, converted, consolidated or combined
NothingDone ==
  /\ line_number = 0
  /\ dataframes = <<>>
  /\ conversion_log = <<>>
  /\ consolidated = <<>>
  /\ call = [group |-> "", absent |-> FALSE]
  /\ joined = [raised |-> FALSE, df |-> EmptyFrame]
  /\ input_paths = <<>>
  /\ results = <<>>
  /\ combined = <<>>

\* State after SpedParser.__init__ without registries of the caller
InitParser ==
  /\ IsParser(SpedParser(LAYOUTS, NUMERIC_COLUMNS, GROUPS, GroupOrder))
  /\ pc = "ready"
  /\ NothingDone

Init ==
  /\ InitParser
  /\ file \in FilesOf(LineKinds, MaxLines)
  /\ strict_mode \in BOOLEAN

\* validation.strict_mode has its default
InitJoin ==
  /\ InitParser
  /\ file \in FilesOf(JoinKinds, MaxJoinLines) \cup FilesOf(HeaderKinds, MaxLines)
  /\ strict_mode = FALSE

(***************************************************************************)
(* SpedParser.parse                                                        *)
(***************************************************************************)
\* validate_file_path and the opening of the file: counts the lines
ParseOpen ==
  /\ pc = "ready"
  /\ IF file = <<>>
       THEN /\ pc' = "raised"
            /\ UNCHANGED metrics
       ELSE /\ pc' = "parsing"
            /\ metrics' = [metrics EXCEPT !.total_lines = Len(file)]
  /\ UNCHANGED <<file, strict_mode, line_number, Registries, rows, indices, record_actions,
                 dataframes, conversion_log, consolidated, call, joined, Batch>>

\* One iteration of the loop over the lines
ParseLine ==
  /\ pc = "parsing"
  /\ line_number < Len(file)
  /\ line_number' = line_number + 1
  /\ LET raw_line == file[line_number + 1]
     IN  IF IsSkipped(raw_line)
           THEN /\ metrics' = [metrics EXCEPT !.skipped_lines = @ + 1]
                /\ UNCHANGED <<pc, rows, indices>>
         ELSE IF LineTooShort(raw_line)
           THEN /\ metrics' = increment_erro(metrics, "Parse Error")
                /\ pc' = IF strict_mode THEN "raised" ELSE pc
                /\ UNCHANGED <<rows, indices>>
         ELSE LET r == process_line([layouts |-> layouts, rows |-> rows, indices |-> indices,
                                     metrics |-> metrics,
                                     record_actions |-> record_actions], raw_line)
              IN  /\ rows' = r.rows
                  /\ indices' = r.indices
                  /\ metrics' = r.metrics
                  /\ UNCHANGED pc
  /\ UNCHANGED <<file, strict_mode, Registries, record_actions, dataframes, conversion_log,
                 consolidated, call, joined, Batch>>

\* End of the loop: the tables are created and returned
ParseFinish ==
  /\ pc = "parsing"
  /\ line_number = Len(file)
  /\ dataframes' = create_dataframes(layouts, rows, record_actions)
  /\ pc' = "parsed"
  /\ UNCHANGED <<file, strict_mode, line_number, Registries, rows, indices, record_actions,
                 metrics, conversion_log, consolidated, call, joined, Batch>>

(***************************************************************************)
(* After the parse: SpedProcessor.process_single_file, or a caller that    *)
(* consolidates one group itself.                                          *)
(***************************************************************************)
Frame == <<file, strict_mode, line_number, Registries, rows, indices, record_actions, metrics>>

\* Converte campos
Convert ==
  /\ pc = "parsed"
  /\ dataframes' = convert_dataframes(dataframes)
  /\ conversion_log' = conversion_messages(dataframes)
  /\ pc' = "converted"
  /\ UNCHANGED <<Frame, consolidated, call, joined, Batch>>

\* The name of the sheet of a group
SheetName(group_name) == group_name \o "_CONSOLIDADO"

\* Consolida grupos: the loop over GROUPS
Consolidate ==
  /\ pc = "converted"
  /\ LET res == [i \in 1..Len(GroupOrder) |-> consolidate_one(dataframes, GROUPS[GroupOrder[i]])]
     IN  IF \E i \in 1..Len(GroupOrder) : res[i].raised
           THEN /\ pc' = "raised"
                /\ UNCHANGED consolidated
           ELSE /\ pc' = "done"
                /\ consolidated' =
                     [s \in {SheetName(GroupOrder[i]) : i \in 1..Len(GroupOrder)} |->
                        res[CHOOSE i \in 1..Len(GroupOrder) : SheetName(GroupOrder[i]) = s].df]
  /\ UNCHANGED <<Frame, dataframes, conversion_log, call, joined, Batch>>

\* A direct call of SpedDataProcessor.consolidate_group_new for one group, on
\* the converted tables or on the converted tables without the parent's
ConsolidateGroup ==
  /\ pc = "converted"
  /\ \E group_name \in CallGroups, absent \in BOOLEAN :
       LET g == GROUPS[group_name]
           dfs == IF absent
                    THEN [code \in (DOMAIN dataframes) \ {g.parent} |-> dataframes[code]]
                    ELSE dataframes
       IN  /\ call' = [group |-> group_name, absent |-> absent]
           /\ joined' = consolidate_group_new(dfs, g.parent, g.children, g.parent_idx_name)
  /\ pc' = "joined"
  /\ UNCHANGED <<Frame, dataframes, conversion_log, consolidated, Batch>>

Next ==
  \/ ParseOpen
  \/ ParseLine
  \/ ParseFinish
  \/ Convert
  \/ Consolidate
  \/ ConsolidateGroup

Spec == Init /\ [][Next]_vars

SpecJoin == InitJoin /\ [][Next]_vars

(***************************************************************************)
(* Vocabulary of the properties.                                           *)
(***************************************************************************)
\* The line reaches _process_line and does not raise there
IsProcessed(raw_line) == ~IsSkipped(raw_line) /\ ~LineTooShort(raw_line)

\* The line raises in _process_line
IsMalformed(raw_line) == ~IsSkipped(raw_line) /\ LineTooShort(raw_line)

\* The line accumulates a row of the record code `code`
IsRowOf(raw_line, code) ==
  IsProcessed(raw_line) /\ RegistroOf(raw_line) = code /\ code \in DOMAIN LAYOUTS

\* The positions among the first n lines of the file of the lines that are
\* processed, malformed, skipped
Processed(n) == {q \in 1..n : IsProcessed(file[q])}
Malformed(n) == {q \in 1..n : IsMalformed(file[q])}
Skipped(n) == {q \in 1..n : IsSkipped(file[q])}

\* The value an accumulated row of `code` holds in the column `col`
RowCell(code, row, col) == row[ColIndex(get_columns_for_code(layouts, record_actions, code), col)]

\* The position in the file of the line an accumulated row came from
LineOf(row) == CHOOSE n \in 1..Len(file) : ToStr(n) = row[2]

Max(S) == CHOOSE x \in S : \A y \in S : y <= x

RECURSIVE Product(_)
Product(ns) == IF ns = <<>> THEN 1 ELSE Head(ns) * Product(Tail(ns))

\* The groups, as a set of records
Groups == {GROUPS[GroupOrder[i]] : i \in 1..Len(GroupOrder)}

\* The child codes of a group that have a layout
ChildrenOf(g) == Range(g.children) \cap DOMAIN LAYOUTS

\* The state a pass starts from
FreshPass ==
  [layouts |-> layouts, rows |-> [code \in DOMAIN layouts |-> <<>>],
   indices |-> InitialIndices, metrics |-> NewMetrics, record_actions |-> record_actions]

\* The rows and counters a pass accumulates over lines none of which raises
RECURSIVE PassOver(_, _)
PassOver(p, lines) ==
  IF lines = <<>> THEN p
  ELSE LET r == process_line(p, Head(lines))
           q == IF IsSkipped(Head(lines)) THEN p
                ELSE [layouts |-> p.layouts, rows |-> r.rows, indices |-> r.indices,
                      metrics |-> r.metrics, record_actions |-> p.record_actions]
       IN  Then(q, PassOver(q, Tail(lines)))

\* The lines, without the malformed ones
WithoutMalformed(lines) == SelectSeq(lines, LAMBDA l : ~IsMalformed(l))

\* The number of lines among the first n whose record code is `code`
CountOfCode(n, code) ==
  Cardinality({q \in 1..n : IsProcessed(file[q]) /\ RegistroOf(file[q]) = code})

\* The per-record-code counts are those of the processed lines among the first n
CountsMatch(n) ==
  /\ DOMAIN metrics.registros_por_tipo =
       {RegistroOf(file[q]) : q \in Processed(n)}
  /\ \A code \in DOMAIN metrics.registros_por_tipo :
       metrics.registros_por_tipo[code] = CountOfCode(n, code)

(***************************************************************************)
(* C1.  In one parsing pass, the parent index a child row carries is the   *)
(* own index of the nearest parent row of its group that precedes it in    *)
(* the file, and processing a child row leaves the parent's counter as it  *)
(* was.                                                                    *)
(***************************************************************************)
C1_Attribution ==
  \A g \in Groups : \A c \in ChildrenOf(g) : \A k \in 1..Len(rows[c]) :
    LET before == {q \in 1..(LineOf(rows[c][k]) - 1) : IsRowOf(file[q], g.parent)}
    IN  before # {} =>
          \E p \in 1..Len(rows[g.parent]) :
            /\ LineOf(rows[g.parent][p]) = Max(before)
            /\ RowCell(c, rows[c][k], g.parent_idx_name)
                 = RowCell(g.parent, rows[g.parent][p], g.parent_idx_name)

C1_ChildStep ==
  \A g \in Groups :
    (/\ pc = "parsing"
     /\ line_number < Len(file)
     /\ line_number' = line_number + 1
     /\ \E c \in ChildrenOf(g) : IsRowOf(file[line_number + 1], c))
    => /\ indices'[Lower(g.parent)] = indices[Lower(g.parent)]
       /\ rows'[g.parent] = rows[g.parent]

\* C1: every child row carries the own index of the nearest preceding parent
\* row of its group, and a step that processes a child row changes neither
\* the parent's counter nor the parent's rows.
C1_Theorem == [](C1_Attribution) /\ [][C1_ChildStep]_vars

\* P1, c1, c2, P2, c3 parsed: c1 and c2 carry P1's index, c3 carries P2's
C1_Witness ==
  /\ pc = "parsed"
  /\ file = FileOfKinds(<<"P", "A", "A", "P", "A">>)
  /\ [k \in 1..2 |-> RowCell("C100", rows["C100"][k], "C100_INDEX")] = <<"0", "1">>
  /\ [k \in 1..3 |-> RowCell("C195", rows["C195"][k], "C100_INDEX")] = <<"0", "0", "1">>

(***************************************************************************)
(* C2.  The rows of a record code that owns a counter carry 0, 1, 2, ...   *)
(* in file order, whatever lines are interleaved.                          *)
(***************************************************************************)
\* The code has an action that advances a counter
OwnsCounter(code) ==
  /\ code \in DOMAIN record_actions
  /\ \E i \in 1..Len(record_actions[code]) : record_actions[code][i].type = "increment"

\* The column that holds the own index of the rows of `code`
OwnIndexCol(code) ==
  record_actions[code][CHOOSE i \in 1..Len(record_actions[code]) :
                         record_actions[code][i].type = "increment"].col

\* C2: for every record code that owns a counter, the k-th accumulated row
\* carries the own index k-1, and the rows are in file order.
C2_Theorem ==
  \A code \in DOMAIN rows :
    OwnsCounter(code) =>
      /\ \A k \in 1..Len(rows[code]) :
           RowCell(code, rows[code][k], OwnIndexCol(code)) = ToStr(k - 1)
      /\ \A j, k \in 1..Len(rows[code]) :
           j < k => LineOf(rows[code][j]) < LineOf(rows[code][k])

\* Two parent rows with a malformed line and an unknown code between them
C2_Witness ==
  /\ pc = "parsed"
  /\ file = FileOfKinds(<<"P", "short", "unk", "P">>)
  /\ [k \in 1..2 |-> RowCell("C100", rows["C100"][k], "C100_INDEX")] = <<"0", "1">>

(***************************************************************************)
(* C3.  A child row that precedes every parent row of its group carries    *)
(* -1 and reaches no row of the group's consolidated table.                *)
(***************************************************************************)
\* The positions of the lines visited so far that hold a child of group g
\* before any parent of g
Orphans(g) ==
  {n \in 1..line_number :
     /\ \E c \in ChildrenOf(g) : IsRowOf(file[n], c)
     /\ \A q \in 1..(n - 1) : ~IsRowOf(file[q], g.parent)}

\* The columns the child code c gives a consolidated table
ChildCols(c) == {c \o "_" \o LAYOUTS[c][i] : i \in 2..Len(LAYOUTS[c])}

\* No row of the table holds, in a column of the child code c, the second
\* field of the line at position n
Unattached(df, c, n) ==
  \A r \in 1..Len(df.data) : \A col \in ChildCols(c) \cap Range(df.columns) :
    Cell(df, r, col) # ToStr(n)

\* C3: a child row before any parent row of its group is accumulated with
\* parent index -1, and neither the table process_single_file returns for
\* the group nor the result of consolidate_group_new holds its fields.
C3_Theorem ==
  \A gi \in 1..Len(GroupOrder) :
    LET g == GROUPS[GroupOrder[gi]]
    IN  \A n \in Orphans(g) :
          LET c == RegistroOf(file[n])
          IN  /\ \E k \in 1..Len(rows[c]) : rows[c][k][2] = ToStr(n)
              /\ \A k \in 1..Len(rows[c]) :
                   rows[c][k][2] = ToStr(n)
                     => RowCell(c, rows[c][k], g.parent_idx_name) = "-1"
              /\ pc = "done" => Unattached(consolidated[SheetName(GroupOrder[gi])], c, n)
              /\ (pc = "joined" /\ call.group = GroupOrder[gi]) => Unattached(joined.df, c, n)

\* c1, P, c2 consolidated: the table holds c2 and not c1
C3_Witness ==
  /\ pc = "done"
  /\ file = FileOfKinds(<<"A", "P", "A">>)
  /\ LET df == consolidated["C_CONSOLIDADO"]
     IN  /\ Len(df.data) = 1
         /\ Cell(df, 1, "C195_COD_OBS") = "3"

(***************************************************************************)
(* C4.  consolidate_group_new gives each parent row the product, over the  *)
(* child tables it joins, of max(1, matching rows), with nulls for a       *)
(* child table without a match.                                            *)
(***************************************************************************)
\* The child codes of group g that consolidate_group_new joins
JoinedChildren(dfs, g) ==
  SelectSeq(g.children,
            LAMBDA c : /\ c \in DOMAIN dfs
                       /\ ~IsEmpty(dfs[c])
                       /\ HasCol(dfs[c], g.parent_idx_name)
                       /\ Range(dfs[c].columns) \ {"REG", g.parent_idx_name} # {})

\* The rows of the table whose column col reads i
RowsWith(df, col, i) == {r \in 1..Len(df.data) : AsStr(Cell(df, r, col)) = i}

\* C4: called on a non-empty parent table, consolidate_group_new does not
\* raise and, for each parent row, returns as many rows as the product over
\* the joined child tables of max(1, number of rows of the child table that
\* carry the parent row's index); where a child table has no such row, the
\* rows of that parent hold nulls in all the columns of that child.
C4_Theorem ==
  (/\ pc = "joined"
   /\ ~call.absent
   /\ ~IsEmpty(dataframes[GROUPS[call.group].parent]))
  => LET g == GROUPS[call.group]
         parent == dataframes[g.parent]
         col == g.parent_idx_name
         jc == JoinedChildren(dataframes, g)
     IN  /\ ~joined.raised
         /\ \A p \in 1..Len(parent.data) :
              LET i == AsStr(Cell(parent, p, col))
                  out == RowsWith(joined.df, col, i)
                  n(c) == Cardinality(RowsWith(dataframes[c], col, i))
              IN  /\ Cardinality(out)
                       = Product([k \in 1..Len(jc) |-> IF n(jc[k]) = 0 THEN 1 ELSE n(jc[k])])
                  /\ \A k \in 1..Len(jc) :
                       n(jc[k]) = 0 =>
                         \A r \in out :
                           \A name \in Range(dataframes[jc[k]].columns) \ {"REG", col} :
                             Cell(joined.df, r, jc[k] \o "_" \o name) = NaN

\* A parent with 2 rows in one child table and 3 in another: 6 rows
C4_Witness ==
  /\ pc = "joined"
  /\ call = [group |-> "C", absent |-> FALSE]
  /\ file = FileOfKinds(<<"P", "A", "A", "B", "B", "B">>)
  /\ ~joined.raised
  /\ Len(joined.df.data) = 6

(***************************************************************************)
(* C5.  Lenient mode: a malformed line costs one error and nothing else.   *)
(***************************************************************************)
\* C5: without strict mode no line error ends the pass; while and after the
\* lines are read, the rows and counters are those of a pass over the lines
\* read so far without the malformed ones, the processed lines are the
\* well-formed ones and the errors are the malformed ones; the pass returns
\* only after the last line, so that a file of n delimiter-prefixed lines
\* with one malformed line gives n-1 processed lines and 1 error.
C5_Theorem ==
  ~strict_mode =>
    /\ (pc = "raised" /\ dataframes = <<>>) => file = <<>>
    /\ pc = "parsed" => line_number = Len(file)
    /\ pc \in {"parsing", "parsed"} =>
         LET seen == SubSeq(file, 1, line_number)
             ref == PassOver(FreshPass, WithoutMalformed(seen))
         IN  /\ rows = ref.rows
             /\ indices = ref.indices
             /\ metrics.processed_lines = Cardinality(Processed(line_number))
             /\ metrics.error_lines = Cardinality(Malformed(line_number))
             /\ CountsMatch(line_number)
    /\ (/\ pc = "parsed"
        /\ Skipped(Len(file)) = {}
        /\ Cardinality(Malformed(Len(file))) = 1)
       => /\ metrics.processed_lines = Len(file) - 1
          /\ metrics.error_lines = 1

\* A malformed line between two parent lines, read to the end: both parent
\* rows are there, numbered 0 and 1
C5_Witness ==
  /\ ~strict_mode
  /\ pc = "parsed"
  /\ file = FileOfKinds(<<"P", "short", "P", "long">>)
  /\ metrics.processed_lines = 3
  /\ metrics.error_lines = 1
  /\ Len(rows["C100"]) = 2
  /\ Len(rows["C195"]) = 1

(***************************************************************************)
(* C6.  Strict mode: the first malformed line ends the pass.               *)
(***************************************************************************)
\* The pass has raised on the line at position line_number
RaisedOnLine == strict_mode /\ pc = "raised" /\ dataframes = <<>> /\ file # <<>>

\* C6, as the code has it: in strict mode the first malformed line ends the
\* pass with an exception; the rows, the counters and the processed, skipped
\* and per-record-code counts are those of the lines before it; the error
\* count is 1, for the failing line; total_lines is the number of lines of
\* the whole file.
C6_Theorem ==
  /\ strict_mode => \A q \in 1..(line_number - 1) : ~IsMalformed(file[q])
  /\ (strict_mode /\ pc \in {"parsing", "parsed"}) => metrics.error_lines = 0
  /\ RaisedOnLine =>
       LET before == SubSeq(file, 1, line_number - 1)
           ref == PassOver(FreshPass, before)
       IN  /\ IsMalformed(file[line_number])
           /\ rows = ref.rows
           /\ indices = ref.indices
           /\ metrics.processed_lines = Cardinality(Processed(line_number - 1))
           /\ metrics.skipped_lines = Cardinality(Skipped(line_number - 1))
           /\ CountsMatch(line_number - 1)
           /\ metrics.error_lines = 1
           /\ metrics.erros_por_tipo = ("Parse Error" :> 1)
           /\ metrics.total_lines = Len(file)

\* C6 as the specification states it: after the exception every metric,
\* total lines and error count included, is that of the lines before the
\* failing line.
C6_AsStated ==
  RaisedOnLine =>
    /\ metrics.total_lines = line_number - 1
    /\ metrics.processed_lines = Cardinality(Processed(line_number - 1))
    /\ metrics.skipped_lines = Cardinality(Skipped(line_number - 1))
    /\ metrics.error_lines = 0

\* A parent line, a blank line, a malformed line, a parent line: the pass
\* raises on the third line
C6_Witness ==
  /\ RaisedOnLine
  /\ file = FileOfKinds(<<"P", "blank", "short", "P">>)
  /\ line_number = 3
  /\ Len(rows["C100"]) = 1
  /\ metrics.processed_lines = 1
  /\ metrics.skipped_lines = 1

(***************************************************************************)
(* C7.  A row holds exactly as many base values as its layout has fields.  *)
(***************************************************************************)
\* The loop of parse visits a line that accumulates a row
RowStep ==
  /\ pc = "parsing"
  /\ line_number < Len(file)
  /\ line_number' = line_number + 1
  /\ IsProcessed(file[line_number + 1])
  /\ RegistroOf(file[line_number + 1]) \in DOMAIN LAYOUTS

C7_Step ==
  RowStep =>
    LET raw_line == file[line_number + 1]
        code == RegistroOf(raw_line)
        tokens == parse_sped_line(raw_line)
        N == Len(LAYOUTS[code])
        row == rows'[code][Len(rows'[code])]
        extra == IF code \in DOMAIN record_actions THEN Len(record_actions[code]) ELSE 0
    IN  /\ Len(rows'[code]) = Len(rows[code]) + 1
        /\ Len(row) = N + extra
        /\ \A i \in 1..N : row[i] = IF i <= Len(tokens) THEN tokens[i] ELSE ""
        /\ metrics' = increment_registro(metrics, code)
        /\ pc' = pc

\* C7: the row a line adds to the table of its code holds the layout's N
\* base values before the index values: the line's tokens, in order, cut
\* after the N-th and followed by empty strings when they are fewer than N;
\* the step counts the record and nothing else.
C7_Theorem == [][C7_Step]_vars

\* A child line of five tokens under a layout of three fields, and a parent
\* line of two tokens under a longer layout
C7_Witness ==
  /\ file = FileOfKinds(<<"long", "P">>)
  /\ line_number = 2
  /\ rows["C195"] = << <<"C195", "1", "a", "-1">> >>
  /\ Len(rows["C100"]) = 1
  /\ SubSeq(rows["C100"][1], 1, 4) = <<"C100", "2", "", "">>
  /\ Len(rows["C100"][1]) = Len(LAYOUTS["C100"]) + 2
  /\ metrics.error_lines = 0

(***************************************************************************)
(* C8.  A record code without a layout is counted and dropped.             *)
(***************************************************************************)
\* The loop of parse visits a well-formed line whose code has no layout
UnknownStep ==
  /\ pc = "parsing"
  /\ line_number < Len(file)
  /\ line_number' = line_number + 1
  /\ IsProcessed(file[line_number + 1])
  /\ RegistroOf(file[line_number + 1]) \notin DOMAIN LAYOUTS

C8_Step ==
  UnknownStep =>
    LET code == RegistroOf(file[line_number + 1])
        old == IF code \in DOMAIN metrics.registros_por_tipo
                 THEN metrics.registros_por_tipo[code] ELSE 0
    IN  /\ code \in DOMAIN metrics'.registros_por_tipo
        /\ metrics'.registros_por_tipo[code] = old + 1
        /\ rows' = rows
        /\ indices' = indices
        /\ metrics'.error_lines = metrics.error_lines
        /\ metrics'.erros_por_tipo = metrics.erros_por_tipo
        /\ pc' = pc

\* C8: a line whose record code has no layout adds 1 to the count of that
\* code, adds no row, changes no counter, counts no error and does not end
\* the pass.
C8_Theorem == [][C8_Step]_vars

\* Two lines of an unknown code after a parent line
C8_Witness ==
  /\ file = FileOfKinds(<<"P", "unk", "unk">>)
  /\ pc = "parsed"
  /\ metrics.registros_por_tipo = ("C100" :> 1) @@ ("Z999" :> 2)
  /\ metrics.processed_lines = 3
  /\ metrics.error_lines = 0
  /\ indices["c100"] = 0

(***************************************************************************)
(* C9.  process_single_file returns no relationship-index column.          *)
(***************************************************************************)
\* C9: for every group whose parent table has rows, the table
\* process_single_file returns holds neither the parent index column nor the
\* header index column of the group.
C9_Theorem ==
  pc = "done" =>
    \A gi \in 1..Len(GroupOrder) :
      LET g == GROUPS[GroupOrder[gi]]
          df == consolidated[SheetName(GroupOrder[gi])]
      IN  ~IsEmpty(dataframes[g.parent]) =>
            /\ Len(df.data) > 0
            /\ ~HasCol(df, g.parent_idx_name)
            /\ ~HasCol(df, g.header_idx_name)

\* A header, a parent and a child joined, and the parent of a group without
\* header or children
C9_Witness ==
  /\ pc = "done"
  /\ file = FileOfKinds(<<"H", "P", "A", "E">>)
  /\ LET df == consolidated["C_CONSOLIDADO"]
     IN  /\ Len(df.data) = 1
         /\ Cell(df, 1, "C010_CNPJ") = "1"
         /\ Cell(df, 1, "C195_COD_OBS") = "3"
         /\ ~HasCol(df, "C100_INDEX")
         /\ ~HasCol(df, "C010_INDEX")
  /\ Len(consolidated["E_CONSOLIDADO"].data) = 1
  /\ ~HasCol(consolidated["E_CONSOLIDADO"], "E110_INDEX")

(***************************************************************************)
(* C10.  A group without parent rows consolidates to the empty table.      *)
(***************************************************************************)
\* C10: consolidate_group_new called for a group whose parent table is
\* missing from the mapping or has no rows returns the empty table and does
\* not raise, and process_single_file returns the empty table for every
\* group whose parent table has no rows.
C10_Theorem ==
  /\ (pc = "joined" /\ (call.absent \/ IsEmpty(dataframes[GROUPS[call.group].parent])))
       => joined = [raised |-> FALSE, df |-> EmptyFrame]
  /\ pc = "done" =>
       \A gi \in 1..Len(GroupOrder) :
         IsEmpty(dataframes[GROUPS[GroupOrder[gi]].parent])
           => consolidated[SheetName(GroupOrder[gi])] = EmptyFrame
  /\ (pc = "raised" /\ dataframes # <<>>) =>
       \E gi \in 1..Len(GroupOrder) : ~IsEmpty(dataframes[GROUPS[GroupOrder[gi]].parent])

\* The parent's table taken out of a mapping that holds its rows and rows of
\* a child
C10_Witness ==
  /\ pc = "joined"
  /\ call = [group |-> "C", absent |-> TRUE]
  /\ file = FileOfKinds(<<"P", "A", "B">>)
  /\ Len(dataframes["C100"].data) = 1
  /\ Len(dataframes["C195"].data) = 1
  /\ joined = [raised |-> FALSE, df |-> EmptyFrame]

(***************************************************************************)
(* Scenario of the numeric conversion: a file of E110 lines whose second   *)
(* field, the numeric field VL_TOT_DEBITOS, holds a text of NumericTexts.  *)
(***************************************************************************)
\* Longest input file, in lines, of the numeric scenario.
MaxValueLines == 2

\* Blank texts, texts that are no number, and numbers in the Brazilian format
BlankTexts == {"", " "}
UnparseableTexts == {"abc", "1,2,3"}
NumberTexts == {"1.234,56", "10", "-0,5"}
NumericTexts == BlankTexts \cup UnparseableTexts \cup NumberTexts

ValueLine(v) == "|E110|" \o v \o "|\n"

InitValues ==
  /\ InitParser
  /\ file \in UNION {[1..n -> {ValueLine(v) : v \in NumericTexts}] : n \in 1..MaxValueLines}
  /\ strict_mode = FALSE

SpecValues == InitValues /\ [][Next]_vars

\* The text the line n of the file holds in its second field
TextOf(n) == CHOOSE v \in NumericTexts : file[n] = ValueLine(v)

\* The number a text of NumberTexts stands for, as a converted cell
NumberOf(v) ==
  CASE v = "1.234,56" -> "|f|1234.56"
    [] v = "10"       -> "|f|10.0"
    [] v = "-0,5"     -> "|f|-0.5"

\* The numeric conversion has run
IsConverted == pc \in {"converted", "done", "joined"}

\* The null counts the conversion of the table of `code` logged for column col
LoggedNulls(code, col) ==
  IF code \notin DOMAIN conversion_log THEN <<>>
  ELSE LET log == conversion_log[code]
           at == Positions(Len(log), [i \in 1..Len(log) |-> log[i].col = col])
       IN  [k \in 1..Len(at) |-> log[at[k]].null_count]

RowsBefore(n, code) == {q \in 1..(n - 1) : IsRowOf(file[q], code)}

\* The fields of the header of group g that attach_header joins
HeaderFields(g) ==
  Range(dataframes[g.header].columns) \ {"REG", g.header_idx_name}

\* The rows of the table df that come from the row p of the parent's table:
\* they hold its second field
RowsOfParent(df, g, p) ==
  LET name == LAYOUTS[g.parent][2]
  IN  {r \in 1..Len(df.data) : Cell(df, r, name) = Cell(dataframes[g.parent], p, name)}

C12_Theorem ==
  \A gi \in 1..Len(GroupOrder) :
    LET g == GROUPS[GroupOrder[gi]]
    IN  g.header # g.parent =>
          \A p \in 1..Len(rows[g.parent]) :
            LET before == RowsBefore(LineOf(rows[g.parent][p]), g.header)
            IN  /\ RowCell(g.parent, rows[g.parent][p], g.header_idx_name)
                     = ToStr(Cardinality(before) - 1)
                /\ pc = "done" =>
                     LET df == consolidated[SheetName(GroupOrder[gi])]
                         header == dataframes[g.header]
                     IN  /\ RowsOfParent(df, g, p) # {}
                         /\ IsEmpty(header) =>
                              \A i \in 1..Len(header.columns) :
                                ~HasCol(df, g.header \o "_" \o header.columns[i])
                         /\ ~IsEmpty(header) =>
                              \A r \in RowsOfParent(df, g, p) : \A f \in HeaderFields(g) :
                                Cell(df, r, g.header \o "_" \o f) =
                                  IF before = {} THEN NaN
                                  ELSE LET h == CHOOSE k \in 1..Len(rows[g.header]) :
                                                  LineOf(rows[g.header][k]) = Max(before)
                                       IN  Cell(header, h, f)

\* A parent before every header, then two headers and a parent: the first
\* parent has nulls, the second the fields of the header of line 3
C12_Witness ==
  /\ pc = "done"
  /\ file = FileOfKinds(<<"P", "H", "H", "P">>)
  /\ LET df == consolidated["C_CONSOLIDADO"]
     IN  /\ Len(df.data) = 2
         /\ Cell(df, 1, "C010_CNPJ") = NaN
         /\ Cell(df, 2, "C010_CNPJ") = "3"

(***************************************************************************)
(* Scenario of the shared headers: a file of C010, D010 and C100 lines.    *)
(***************************************************************************)
\* Longest input file, in lines, of the shared-header scenario.
MaxSharedLines == 4

InitShared ==
  /\ InitParser
  /\ file \in FilesOf(SharedKinds, MaxSharedLines)
  /\ strict_mode = FALSE

SpecShared == InitShared /\ [][Next]_vars

(***************************************************************************)
(* C13.  A record code performs each distinct index action once per line.  *)
(* No list of actions holds two actions of the same type on the same       *)
(* counter; the header codes shared by several groups, C010 and D010, have *)
(* the single action that increments their own counter; so each row of     *)
(* such a header advances its counter by exactly 1, leaves every other     *)
(* counter alone, and the header's table has exactly one index column.     *)
(***************************************************************************)
\* The header codes that several groups share
SharedHeaders ==
  {h \in {GROUPS[n].header : n \in DOMAIN GROUPS} :
     Cardinality({n \in DOMAIN GROUPS : GROUPS[n].header = h}) > 1}

C13_Actions ==
  /\ \A code \in DOMAIN record_actions :
       \A i, j \in 1..Len(record_actions[code]) :
         (/\ record_actions[code][i].type = record_actions[code][j].type
          /\ record_actions[code][i].key = record_actions[code][j].key) => i = j
  /\ SharedHeaders = {"C010", "D010"}
  /\ \A h \in SharedHeaders :
       /\ record_actions[h] = <<[type |-> "increment", key |-> Lower(h), col |-> h \o "_INDEX"]>>
       /\ \A k \in 1..Len(rows[h]) :
            /\ Len(rows[h][k]) = Len(LAYOUTS[h]) + 1
            /\ rows[h][k][Len(LAYOUTS[h]) + 1] = ToStr(k - 1)
       /\ (h \in DOMAIN dataframes /\ ~IsEmpty(dataframes[h])) =>
            dataframes[h].columns = LAYOUTS[h] \o <<h \o "_INDEX">>

\* A step of the loop on a row of a shared header
C13_Step ==
  (/\ pc = "parsing"
   /\ line_number' = line_number + 1
   /\ \E h \in SharedHeaders : IsRowOf(file[line_number + 1], h))
  => LET h == RegistroOf(file[line_number + 1])
     IN  /\ indices'[Lower(h)] = indices[Lower(h)] + 1
         /\ \A k \in DOMAIN indices : k # Lower(h) => indices'[k] = indices[k]
         /\ DOMAIN indices' = DOMAIN indices
         /\ Len(rows'[h]) = Len(rows[h]) + 1

C13_Theorem == [](C13_Actions) /\ [][C13_Step]_vars

\* Two rows of C010 and one of D010 parsed: the counters read 1 and 0
C13_Witness ==
  /\ pc = "parsed"
  /\ file = FileOfKinds(<<"H", "D", "H", "P">>)
  /\ indices["c010"] = 1
  /\ indices["d010"] = 0
  /\ dataframes["C010"].columns = <<"REG", "CNPJ", "IND_ESCRI", "C010_INDEX">>
  /\ Len(dataframes["D010"].data) = 1

(***************************************************************************)
(* Scenario of the construction: SpedParser.__init__ on a registry of two  *)
(* groups given by the caller, in one of its two iteration orders.         *)
(***************************************************************************)
\* One group of a caller's registry
CallerGroups ==
  [parent : {"C100", "C500"}, children : {<<"C170">>, <<"C190">>},
   parent_idx_name : {"C100_INDEX", "PARENT_INDEX"}, header_idx_name : {"C010_INDEX"},
   header : {"C010", ""}]

\* The orders in which the names of a registry can be iterated
Orders(names) ==
  {o \in [1..Cardinality(names) -> names] : \A i, j \in DOMAIN o : o[i] = o[j] => i = j}

\* Before SpedParser.__init__: the arguments of the constructor are chosen
InitRegistry ==
  /\ pc = "new"
  /\ file = <<"|C100|1|\n">>
  /\ strict_mode = FALSE
  /\ layouts = LAYOUTS
  /\ numeric_columns = NUMERIC_COLUMNS
  /\ groups \in [{"G1", "G2"} -> CallerGroups]
  /\ group_order \in Orders({"G1", "G2"})
  /\ rows = <<>>
  /\ indices = <<>>
  /\ record_actions = <<>>
  /\ metrics = NewMetrics
  /\ NothingDone

\* SpedParser.__init__
Construct ==
  /\ pc = "new"
  /\ BecomesParser(SpedParser(layouts, numeric_columns, groups, group_order))
  /\ pc' = "ready"
  /\ UNCHANGED <<file, strict_mode, line_number, dataframes, conversion_log, consolidated,
                 call, joined, Batch>>

NextRegistry == Construct

SpecRegistry == InitRegistry /\ [][NextRegistry]_vars

(***************************************************************************)
(* C14.  The index actions derived at construction time, as a set of       *)
(* (type, counter, column) for each record code, are the same for every    *)
(* order in which the groups are iterated.                                 *)
(***************************************************************************)
\* The actions of each record code, as sets
ActionSets(ra) == [code \in DOMAIN ra |-> Range(ra[code])]

C14_AsStated ==
  pc = "ready" =>
    \A order \in Orders(DOMAIN groups) :
      ActionSets(DeriveActions(groups, order)) = ActionSets(record_actions)

(***************************************************************************)
(* C15.  The counter of processed lines counts every line that reaches     *)
(* _process_line and does not raise there, whether or not its record code  *)
(* has a layout: after a pass it equals the number of rows accumulated     *)
(* over all tables plus the number of lines with an unknown record code.   *)
(***************************************************************************)
RECURSIVE SumOver(_, _)
\* The sum of f[x] over the x of S
SumOver(f, S) ==
  IF S = {} THEN 0
  ELSE LET x == CHOOSE y \in S : TRUE IN f[x] + SumOver(f, S \ {x})

\* The number of rows accumulated over all tables
TotalRows == SumOver([code \in DOMAIN rows |-> Len(rows[code])], DOMAIN rows)

\* The lines visited so far that are processed and whose code has a layout,
\* and those whose code has none
KnownLines == {q \in Processed(line_number) : RegistroOf(file[q]) \in DOMAIN layouts}
UnknownLines == {q \in Processed(line_number) : RegistroOf(file[q]) \notin DOMAIN layouts}

\* The pass is over
PassDone == pc \in {"parsed", "converted", "done", "joined"}

C15_Theorem ==
  /\ TotalRows = Cardinality(KnownLines)
  /\ metrics.processed_lines = TotalRows + Cardinality(UnknownLines)
  /\ PassDone => line_number = Len(file)

\* C15 as stated: after a pass the counter equals the number of lines whose
\* record code has a layout, which is the number of rows accumulated
C15_AsStated ==
  PassDone =>
    /\ metrics.processed_lines = Cardinality(KnownLines)
    /\ metrics.processed_lines = TotalRows

\* Two lines with a layout, one with an unknown code and one skipped
C15_Witness ==
  /\ pc = "parsed"
  /\ file = FileOfKinds(<<"P", "unk", "long", "nopipe">>)
  /\ TotalRows = 2
  /\ metrics.processed_lines = 3
  /\ metrics.skipped_lines = 1

(***************************************************************************)
(* Table objects.  A table is an object a caller and a callee share: a     *)
(* write into a table (df[col] = ...) is seen through every name bound to  *)
(* it.  `heap` maps the name of an object to its contents; the objects of  *)
(* the mapping passed to a call are named by their record codes.           *)
(***************************************************************************)
\* A name bound to the same object instead of a copy of it
CopyNone(heap, obj, new) == [obj |-> obj, heap |-> heap]

\* obj.copy(): a new object `new` with the contents of obj
Copy(heap, obj, new) == [obj |-> new, heap |-> (new :> heap[obj]) @@ heap]

\* if col in obj.columns: obj[col] = obj[col].astype(str)
EnsureStr(heap, obj, col) ==
  IF HasCol(heap[obj], col) THEN [heap EXCEPT ![obj] = ColAsStr(@, col)] ELSE heap

\* The loop body of consolidate_group_new from `child = child.copy()` on:
\* st = [raised, result, heap], c the copy of the child
MergeChildCall(st, c, code, parent_index_col) ==
  IF ~HasCol(c.heap[c.obj], parent_index_col)
    THEN [st EXCEPT !.heap = c.heap]
  ELSE IF Range(c.heap[c.obj].columns) \subseteq {"REG", parent_index_col}
    THEN [st EXCEPT !.heap = EnsureStr(c.heap, c.obj, parent_index_col)]
  ELSE
    LET heap1 == EnsureStr(c.heap, c.obj, parent_index_col)
        j == JoinChild([raised |-> FALSE, df |-> heap1[st.result]],
                       (code :> heap1[c.obj]), code, parent_index_col)
    IN  IF j.raised
          THEN [raised |-> TRUE, result |-> st.result, heap |-> heap1]
          ELSE [raised |-> FALSE, result |-> "merged", heap |-> ("merged" :> j.df) @@ heap1]

\* The loop body of consolidate_group_new on the objects of st.heap; codes
\* are the keys of the mapping
JoinChildCall(st, codes, code, parent_index_col) ==
  IF st.raised THEN st
  ELSE IF code \notin codes \/ IsEmpty(st.heap[code]) THEN st
  ELSE MergeChildCall(st, Copy(st.heap, code, "child"), code, parent_index_col)

RECURSIVE JoinChildrenCall(_, _, _, _)
JoinChildrenCall(st, codes, child_codes, parent_index_col) ==
  IF child_codes = <<>> THEN st
  ELSE LET st1 == JoinChildCall(st, codes, Head(child_codes), parent_index_col)
       IN  Then(st1, JoinChildrenCall(st1, codes, Tail(child_codes), parent_index_col))

\* consolidate_group_new from `result = dataframes[parent_code].copy()` on
ConsolidateCopy(c, codes, child_codes, parent_index_col) ==
  JoinChildrenCall([raised |-> FALSE, result |-> c.obj,
                    heap |-> EnsureStr(c.heap, c.obj, parent_index_col)],
                   codes, child_codes, parent_index_col)

\* A call of consolidate_group_new with the mapping dfs: the objects after
\* the call and the name of the one returned
consolidate_group_new_call(dfs, parent_code, child_codes, parent_index_col) ==
  IF parent_code \notin DOMAIN dfs \/ IsEmpty(dfs[parent_code])
    THEN [raised |-> FALSE, result |-> "empty", heap |-> ("empty" :> EmptyFrame) @@ dfs]
    ELSE ConsolidateCopy(Copy(dfs, parent_code, "result"), DOMAIN dfs, child_codes,
                         parent_index_col)

\* A call of attach_header with the objects df and header_df of heap
attach_header_call(heap, df, has_header, header_df, parent_header_index_col, header_prefix) ==
  IF ~has_header \/ IsEmpty(heap[header_df]) \/ IsEmpty(heap[df])
    THEN [raised |-> FALSE, result |-> df, heap |-> heap]
  ELSE IF ~HasCol(heap[header_df], parent_header_index_col)
    THEN [raised |-> TRUE, result |-> df, heap |-> heap]
  ELSE IF ~HasCol(heap[df], parent_header_index_col)
    THEN [raised |-> TRUE, result |-> df, heap |-> heap]
  ELSE [raised |-> FALSE, result |-> "merged",
        heap |-> ("merged" :> attach_header(heap[df], TRUE, heap[header_df],
                                            parent_header_index_col, header_prefix).df)
                 @@ EnsureStr(heap, df, parent_header_index_col)]

\* The tables of the mapping after a call
MappingAfter(heap, codes) == [code \in codes |-> heap[code]]

(***************************************************************************)
(* A caller that consolidates the group C itself, twice, and attaches the  *)
(* header, with the tables of one mapping.                                 *)
(***************************************************************************)
\* Longest input file, in lines, of the direct-call scenario.
MaxFrameLines == 3

\* A header, its parent and a child with numeric fields
FrameKinds == {"H", "P", "B"}

\* The join keys of the direct calls: the index column of the parent, and a
\* numeric field the parent and the child C197 share
FrameKeys == {"C100_INDEX", "VL_ICMS"}

InitFrame ==
  /\ InitParser
  /\ file \in FilesOf(FrameKinds, MaxFrameLines)
  /\ strict_mode = FALSE

\* consolidated_df = consolidate_group_new(dataframes, 'C100', [...], key)
CallConsolidate ==
  /\ pc = "converted"
  /\ \E key \in FrameKeys :
       LET r == consolidate_group_new_call(dataframes, GROUPS["C"].parent,
                                           GROUPS["C"].children, key)
       IN  /\ call' = [group |-> "C", absent |-> FALSE, key |-> key]
           /\ joined' = [raised |-> r.raised, df |-> r.heap[r.result]]
           /\ dataframes' = MappingAfter(r.heap, DOMAIN dataframes)
  /\ pc' = "joined"
  /\ UNCHANGED <<Frame, conversion_log, consolidated, Batch>>

\* The same call once more
CallAgain ==
  /\ pc = "joined"
  /\ LET r == consolidate_group_new_call(dataframes, GROUPS["C"].parent,
                                         GROUPS["C"].children, call.key)
     IN  /\ joined' = [raised |-> r.raised, df |-> r.heap[r.result]]
         /\ dataframes' = MappingAfter(r.heap, DOMAIN dataframes)
  /\ pc' = "joined again"
  /\ UNCHANGED <<Frame, conversion_log, consolidated, call, Batch>>

\* attach_header(consolidated_df, dataframes.get('C010'), 'C010_INDEX', 'C010_')
CallAttachHeader ==
  /\ pc = "joined again"
  /\ ~joined.raised
  /\ LET r == attach_header_call(("df" :> joined.df) @@ dataframes, "df",
                                 GROUPS["C"].header \in DOMAIN dataframes,
                                 GROUPS["C"].header, GROUPS["C"].header_idx_name,
                                 GROUPS["C"].header \o "_")
     IN  /\ joined' = [raised |-> r.raised, df |-> r.heap[r.result]]
         /\ dataframes' = MappingAfter(r.heap, DOMAIN dataframes)
  /\ pc' = "attached"
  /\ UNCHANGED <<Frame, conversion_log, consolidated, call, Batch>>

NextFrame ==
  \/ ParseOpen
  \/ ParseLine
  \/ ParseFinish
  \/ Convert
  \/ CallConsolidate
  \/ CallAgain
  \/ CallAttachHeader

SpecFrame == InitFrame /\ [][NextFrame]_vars

\* A step that is a call of consolidate_group_new or of attach_header
IsCallStep == pc \in {"converted", "joined", "joined again"} /\ pc' # pc

\* C16: consolidate_group_new and attach_header leave every table of the
\* mapping passed in unchanged (same columns, rows and values after the call
\* as before), the second consolidation of a group from the same mapping
\* returns what the first returned, and what a call returns is what the
\* operation computes from the tables as they were before the call.
C16_Returned ==
  pc \in {"joined", "joined again"} =>
    joined = consolidate_group_new(dataframes, GROUPS["C"].parent, GROUPS["C"].children,
                                   call.key)

C16_Step ==
  /\ IsCallStep => dataframes' = dataframes
  /\ pc = "joined" /\ pc' = "joined again" => joined' = joined
  /\ pc' = "attached" =>
       joined' = attach_header(joined.df, GROUPS["C"].header \in DOMAIN dataframes,
                               dataframes[GROUPS["C"].header], GROUPS["C"].header_idx_name,
                               GROUPS["C"].header \o "_")

C16_Theorem == [](C16_Returned) /\ [][C16_Step]_vars

\* Parent, child and header rows; the key is the numeric field, a null in the
\* mapping's tables and the text 'nan' in the table returned
C16_Witness ==
  /\ pc = "attached"
  /\ file = FileOfKinds(<<"H", "P", "B">>)
  /\ call.key = "VL_ICMS"
  /\ Cell(dataframes["C100"], 1, "VL_ICMS") = NaN
  /\ Cell(dataframes["C197"], 1, "VL_ICMS") = NaN
  /\ Cell(joined.df, 1, "VL_ICMS") = "nan"
  /\ HasCol(joined.df, "C010_CNPJ")
  /\ HasCol(joined.df, "C197_COD_AJ")

(***************************************************************************)
(* SpedProcessor.process_multiple_files                                    *)
(***************************************************************************)
\* Most files of a list, and longest file of a list, in lines.
MaxFiles == 2
MaxMultiLines == 2

\* A header, a parent and a child
MultiKinds == {"H", "P", "A"}

\* The column names of the frames, each once, in the order they first appear
RECURSIVE UnionCols(_)
UnionCols(frames) ==
  IF frames = <<>> THEN <<>>
  ELSE LET before == UnionCols(SubSeq(frames, 1, Len(frames) - 1))
       IN  before \o SelectSeq(frames[Len(frames)].columns,
                               LAMBDA c : c \notin Range(before))

\* The column holds dates in some frame
IsDateCol(frames, col) ==
  \E i \in 1..Len(frames) :
    /\ HasCol(frames[i], col)
    /\ \E r \in 1..Len(frames[i].data) :
         StartsWith(Cell(frames[i], r, col), "|t|") \/ Cell(frames[i], r, col) = "|NaT|"

\* The rows of one frame of a concatenation under the columns cols
Reindexed(frames, df, cols) ==
  [r \in 1..Len(df.data) |->
     [c \in 1..Len(cols) |->
        IF HasCol(df, cols[c]) THEN Cell(df, r, cols[c])
        ELSE IF IsDateCol(frames, cols[c]) THEN "|NaT|" ELSE NaN]]

\* The rows of every frame under the columns cols, frame after frame
ConcatRows(frames, cols) ==
  Flatten([i \in 1..Len(frames) |-> Reindexed(frames, frames[i], cols)])

\* pd.concat with the frames' rows in a changed order: those of the last
\* frame first
ConcatLastFirst(frames) ==
  Table(UnionCols(frames),
        ConcatRows(<<frames[Len(frames)]>> \o SubSeq(frames, 1, Len(frames) - 1),
                   UnionCols(frames)))

\* pd.concat(frames, ignore_index=True) for a non-empty list of frames: the
\* rows of the frames in turn, under the union of their columns
Concat(frames) == Table(UnionCols(frames), ConcatRows(frames, UnionCols(frames)))

\* The frames of _concat_results for a key
FramesOf(rs, key) ==
  LET holds == SelectSeq(rs, LAMBDA res : key \in DOMAIN res)
      named == [i \in 1..Len(holds) |-> holds[i][key]]
  IN  SelectSeq(named, LAMBDA df : ~IsEmpty(df))

\* SpedProcessor._concat_results
concat_results(rs) ==
  [key \in UNION {DOMAIN rs[i] : i \in 1..Len(rs)} |->
     IF FramesOf(rs, key) # <<>> THEN Concat(FramesOf(rs, key)) ELSE EmptyFrame]

\* The parser of the file before it, kept for the next file
ParserKept(p) == p

\* parser = SpedParser(input_path): the parser of the next file, p being
\* the parser of the file before it
ParserOfFile(p) == SpedParser(LAYOUTS, NUMERIC_COLUMNS, GROUPS, GroupOrder)

\* The parser as it is
ThisParser ==
  [layouts |-> layouts, numeric_columns |-> numeric_columns, groups |-> groups,
   group_order |-> group_order, rows |-> rows, indices |-> indices,
   record_actions |-> record_actions, metrics |-> metrics]

\* process_multiple_files is called with a list of files; no file is parsed
InitMulti ==
  /\ IsParser(SpedParser(LAYOUTS, NUMERIC_COLUMNS, GROUPS, GroupOrder))
  /\ pc = "batch"
  /\ file = <<>>
  /\ strict_mode = FALSE
  /\ line_number = 0
  /\ dataframes = <<>>
  /\ conversion_log = <<>>
  /\ consolidated = <<>>
  /\ call = [group |-> "", absent |-> FALSE]
  /\ joined = [raised |-> FALSE, df |-> EmptyFrame]
  /\ \E n \in 0..MaxFiles : input_paths \in [1..n -> FilesOf(MultiKinds, MaxMultiLines)]
  /\ results = <<>>
  /\ combined = <<>>

\* The loop over input_paths enters process_single_file: the file is
\* validated and a parser is made for it
NextFile ==
  /\ pc = "batch"
  /\ Len(results) < Len(input_paths)
  /\ file' = input_paths[Len(results) + 1]
  /\ IF input_paths[Len(results) + 1] = <<>>
       THEN /\ pc' = "raised"
            /\ UNCHANGED <<Registries, rows, indices, record_actions, metrics>>
       ELSE /\ pc' = "ready"
            /\ BecomesParser(ParserOfFile(ThisParser))
  /\ line_number' = 0
  /\ dataframes' = <<>>
  /\ conversion_log' = <<>>
  /\ consolidated' = <<>>
  /\ UNCHANGED <<strict_mode, call, joined, Batch>>

\* results.append(result)
FileDone ==
  /\ pc = "done"
  /\ results' = Append(results, consolidated)
  /\ pc' = "batch"
  /\ UNCHANGED <<Frame, dataframes, conversion_log, consolidated, call, joined, input_paths,
                 combined>>

\* return SpedProcessor._concat_results(results)
ConcatResults ==
  /\ pc = "batch"
  /\ Len(results) = Len(input_paths)
  /\ combined' = concat_results(results)
  /\ pc' = "combined"
  /\ UNCHANGED <<Frame, dataframes, conversion_log, consolidated, call, joined, input_paths,
                 results>>

NextMulti ==
  \/ NextFile
  \/ ParseOpen
  \/ ParseLine
  \/ ParseFinish
  \/ Convert
  \/ Consolidate
  \/ FileDone
  \/ ConcatResults

SpecMulti == InitMulti /\ [][NextMulti]_vars

\* What process_single_file returns for the tables dfs
SheetsOf(dfs) ==
  [s \in {SheetName(GroupOrder[i]) : i \in 1..Len(GroupOrder)} |->
     consolidate_one(dfs, GROUPS[GroupOrder[CHOOSE i \in 1..Len(GroupOrder) :
                                               SheetName(GroupOrder[i]) = s]]).df]

\* What process_single_file returns for the file f processed alone
Alone(f) ==
  SheetsOf(convert_dataframes(
             create_dataframes(LAYOUTS, PassOver(FreshPass, WithoutMalformed(f)).rows,
                               DeriveActions(GROUPS, GroupOrder))))

\* The number of rows the tables before the i-th hold
RowsAhead(tables, i) == SumOver([j \in 1..(i - 1) |-> Len(tables[j].data)], 1..(i - 1))

\* The table df is the row-wise concatenation of the tables: their rows in
\* turn, each with its values under its columns and nulls under the others
IsConcatOf(df, tables) ==
  /\ Len(df.data) = RowsAhead(tables, Len(tables) + 1)
  /\ Range(df.columns) =
       UNION {Range(tables[i].columns) : i \in {j \in 1..Len(tables) : ~IsEmpty(tables[j])}}
  /\ \A i \in 1..Len(tables) : \A r \in 1..Len(tables[i].data) :
       \A col \in Range(df.columns) :
         IF HasCol(tables[i], col)
           THEN Cell(df, RowsAhead(tables, i) + r, col) = Cell(tables[i], r, col)
           ELSE Cell(df, RowsAhead(tables, i) + r, col) \in {NaN, "|NaT|"}

\* C17: each file of a list is parsed by a parser of its own, whose counters
\* start at -1 and whose rows start empty; the result kept for a file is the
\* one process_single_file returns for that file alone, and each table of
\* the combined result is the row-wise concatenation of the tables of that
\* name of the files processed alone.
C17_Theorem ==
  /\ pc = "ready" =>
       /\ indices = InitialIndices
       /\ \A code \in DOMAIN rows : rows[code] = <<>>
       /\ metrics = NewMetrics
  /\ \A i \in 1..Len(results) : results[i] = Alone(input_paths[i])
  /\ pc = "combined" =>
       /\ Len(results) = Len(input_paths)
       /\ \A s \in DOMAIN combined :
            IsConcatOf(combined[s], [i \in 1..Len(input_paths) |-> Alone(input_paths[i])[s]])

\* Two files: a parent and its child, then a child and a parent after it.
\* The table of the group has the two parent rows, the first with its
\* child, the second with none: the child of the second file has no parent
\* before it in its file, and the parent of the first file is not its parent.
C17_Witness ==
  /\ pc = "combined"
  /\ input_paths = <<FileOfKinds(<<"P", "A">>), FileOfKinds(<<"A", "P">>)>>
  /\ Len(combined["C_CONSOLIDADO"].data) = 2
  /\ Cell(combined["C_CONSOLIDADO"], 1, "IND_OPER") = "Saida"
  /\ Cell(combined["C_CONSOLIDADO"], 1, "C195_COD_OBS") = "2"
  /\ Cell(combined["C_CONSOLIDADO"], 2, "IND_OPER") = "2"
  /\ Cell(combined["C_CONSOLIDADO"], 2, "C195_COD_OBS") = NaN

(***************************************************************************)
(* A caller with registries of its own (app.process_sped_file): the parser *)
(* is constructed with them, the tables are converted, and the caller      *)
(* consolidates the groups of its Group Registry.                          *)
(***************************************************************************)
\* Longest input file, in lines, of the caller scenario.
MaxCallerLines == 3

\* A layout registry with a code the built-in registries lack (X100) and
\* with layouts of its own for two codes they hold
CallerLayouts ==
  [C010 |-> <<"REG", "CNPJ">>,
   C100 |-> <<"REG", "NUM_DOC", "VL_DOC">>,
   X100 |-> <<"REG", "NAME", "VL_X">>]

\* Numeric-field registries: without and with an entry for C100
CallerNumerics ==
  {[X100 |-> <<"VL_X">>],
   [X100 |-> <<"VL_X">>, C100 |-> <<"VL_DOC">>]}

\* A group registry of two groups under one header code, each naming the
\* column of the header's counter
CallerRegistry ==
  [G1 |-> [parent |-> "C100", children |-> <<"C170">>, parent_idx_name |-> "C100_INDEX",
           header_idx_name |-> "C010_INDEX", header |-> "C010"],
   G2 |-> [parent |-> "X100", children |-> <<>>, parent_idx_name |-> "X100_INDEX",
           header_idx_name |-> "HDR_INDEX", header |-> "C010"]]

\* The texts of a field
CallerTexts == {"7", "x"}

\* A line of the record code `code` whose fields hold the text v
CallerLine(code, v) == "|" \o code \o "|" \o v \o "|" \o v \o "|\n"

CallerLines == {CallerLine(code, v) : code \in DOMAIN CallerLayouts, v \in CallerTexts}

InitCaller ==
  /\ \E ns \in CallerNumerics, order \in Orders(DOMAIN CallerRegistry) :
       IsParser(SpedParser(CallerLayouts, ns, CallerRegistry, order))
  /\ pc = "ready"
  /\ NothingDone
  /\ file \in UNION {[1..n -> CallerLines] : n \in 0..MaxCallerLines}
  /\ strict_mode = FALSE

\* The position of a group in the iteration over the groups, 0 for none
PosOf(group_name) ==
  IF group_name = "" THEN 0
  ELSE CHOOSE i \in 1..Len(group_order) : group_order[i] = group_name

\* The body of the loop of app.process_sped_file for a group whose parent
\* has rows: c is what consolidate_group_new returned, h what attach_header
\* did (raised: it raised and the exception was passed over)
AppSheet(g, c, h) ==
  DropCols(IF h.raised THEN c.df ELSE h.df, {g.parent_idx_name, g.header_idx_name})

\* The call of attach_header in the loop of app.process_sped_file
AppAttach(dfs, g, c) ==
  IF ~IsEmpty(c.df) /\ g.header \in DOMAIN dfs /\ ~IsEmpty(dfs[g.header])
    THEN attach_header(c.df, TRUE, dfs[g.header], g.header_idx_name, g.header \o "_")
    ELSE c

\* One iteration of the loop of app.process_sped_file over groups.items()
AppGroup ==
  /\ pc = "converted"
  /\ PosOf(call.group) < Len(group_order)
  /\ call' = [group |-> group_order[PosOf(call.group) + 1], absent |-> FALSE]
  /\ LET g == groups[group_order[PosOf(call.group) + 1]]
         c == consolidate_group_new(dataframes, g.parent, g.children, g.parent_idx_name)
     IN  IF g.parent \notin DOMAIN dataframes \/ IsEmpty(dataframes[g.parent])
           THEN /\ joined' = [raised |-> FALSE, df |-> EmptyFrame]
                /\ UNCHANGED <<pc, consolidated>>
         ELSE IF c.raised
           THEN /\ joined' = c
                /\ pc' = "raised"
                /\ UNCHANGED consolidated
           ELSE /\ joined' = AppAttach(dataframes, g, c)
                /\ consolidated' =
                     (SheetName(group_order[PosOf(call.group) + 1])
                        :> AppSheet(g, c, AppAttach(dataframes, g, c))) @@ consolidated
                /\ UNCHANGED pc
  /\ UNCHANGED <<Frame, dataframes, conversion_log, Batch>>

\* return consolidated, dataframes, parser.metrics
AppReturn ==
  /\ pc = "converted"
  /\ PosOf(call.group) = Len(group_order)
  /\ pc' = "done"
  /\ UNCHANGED <<Frame, dataframes, conversion_log, consolidated, call, joined, Batch>>

NextCaller ==
  \/ ParseOpen
  \/ ParseLine
  \/ ParseFinish
  \/ Convert
  \/ AppGroup
  \/ AppReturn

SpecCaller == InitCaller /\ [][NextCaller]_vars

\* The fields the numeric-field registry of the parser declares for a code
Declared(code) ==
  IF code \in DOMAIN numeric_columns THEN Range(numeric_columns[code]) ELSE {}

\* C18 as the specification states it: with registries of the caller, the
\* conversion converts every field the parser's numeric-field registry
\* declares for the code of a table, and leaves every other field as the
\* text the line held.
C18_AsStated ==
  pc \in {"converted", "done"} =>
    \A code \in DOMAIN dataframes : \A r \in 1..Len(dataframes[code].data) :
      \A c \in 1..Len(layouts[code]) :
        dataframes[code].data[r][c] =
          IF layouts[code][c] \in Declared(code)
            THEN convert_numeric_value(rows[code][r][c])
            ELSE rows[code][r][c]

\* The table of `code` is missing from the tables, empty, or without the
\* column key
IsSkippable(dfs, code, key) ==
  code \notin DOMAIN dfs \/ IsEmpty(dfs[code]) \/ ~HasCol(dfs[code], key)

\* C19 as the specification states it: in the consolidation of a group whose
\* parent has rows, a child table that is missing, empty or without the
\* parent's index column is skipped, so that consolidate_group_new does not
\* raise and returns what it returns without that child; and a header table
\* that is missing, empty or without the header's index column is skipped,
\* so that attach_header does not raise and returns the table it was given.
C19_AsStated ==
  (/\ pc \in {"converted", "done", "raised"}
   /\ call.group # ""
   /\ ~IsSkippable(dataframes, groups[call.group].parent, "REG"))
  =>
    LET g == groups[call.group]
        c == consolidate_group_new(dataframes, g.parent, g.children, g.parent_idx_name)
    IN  /\ ~c.raised
        /\ c = consolidate_group_new(
                 dataframes, g.parent,
                 SelectSeq(g.children,
                           LAMBDA code : ~IsSkippable(dataframes, code, g.parent_idx_name)),
                 g.parent_idx_name)
        /\ IsSkippable(dataframes, g.header, g.header_idx_name) => joined = c

(***************************************************************************)
(* Lines too short to hold a record code.                                  *)
(***************************************************************************)
\* Longest input file, in lines, of the short-line scenario.
MaxShortLines == 3

InitShort ==
  /\ InitParser
  /\ file \in FilesOf(ShortKinds, MaxShortLines)
  /\ strict_mode \in BOOLEAN

SpecShort == InitShort /\ [][Next]_vars

\* The line is handed to _process_line and, without its line terminator,
\* has fewer than 5 characters
IsShortOfCode(raw_line) == ~IsSkipped(raw_line) /\ Len(RStripEol(raw_line)) < 5

\* The lines visited so far that are too short to hold a code, and the other
\* lines handed to _process_line
ShortLines == {q \in 1..line_number : IsShortOfCode(file[q])}
CodeLines == {q \in 1..line_number : ~IsSkipped(file[q]) /\ ~IsShortOfCode(file[q])}

\* C20 as the specification states it: every line visited that starts with
\* the delimiter and has fewer than 5 characters before its line terminator
\* has failed with a parse error, and is counted under no record code and as
\* no processed line.
C20_AsStated ==
  /\ metrics.error_lines = Cardinality(ShortLines)
  /\ ShortLines # {} => "Parse Error" \in DOMAIN metrics.erros_por_tipo
  /\ metrics.processed_lines = Cardinality(CodeLines)
  /\ DOMAIN metrics.registros_por_tipo = {RegistroOf(file[q]) : q \in CodeLines}

(***************************************************************************)
(* C21.  The columns of the tables a pass returns.                         *)
(***************************************************************************)
\* C21 as the specification states it: the pass returns a table for every
\* record code of the Layout Registry, a code without rows included; its
\* columns are the layout's fields followed by the columns of the code's
\* index actions, in action order, and every row holds one value per column.
C21_AsStated ==
  pc = "parsed" =>
    \A code \in DOMAIN layouts :
      /\ code \in DOMAIN dataframes
      /\ dataframes[code].columns = get_columns_for_code(layouts, record_actions, code)
      /\ \A r \in 1..Len(dataframes[code].data) :
           Len(dataframes[code].data[r]) = Len(dataframes[code].columns)

(***************************************************************************)
(* A direct call of one operation of the library: the arguments are in     *)
(* `call`, what the call returned or raised in `joined`.                   *)
(***************************************************************************)
\* State before the direct call with the arguments c, on a new parser
InitCall(c) ==
  /\ IsParser(SpedParser(LAYOUTS, NUMERIC_COLUMNS, GROUPS, GroupOrder))
  /\ pc = "ready"
  /\ file = <<>>
  /\ strict_mode = FALSE
  /\ line_number = 0
  /\ dataframes = <<>>
  /\ conversion_log = <<>>
  /\ consolidated = <<>>
  /\ call = c
  /\ joined = [raised |-> FALSE, df |-> EmptyFrame]
  /\ input_paths = <<>>
  /\ results = <<>>
  /\ combined = <<>>

(***************************************************************************)
(* C22.  The Line Tokenizer on delimited lines.                            *)
(***************************************************************************)
\* Most fields of a line of the tokenizer scenario.
MaxFields == 3

\* The texts of a field: empty, a blank, a letter, a record code
FieldTexts == {"", " ", "a", "C100"}

\* The line terminators: none, LF, CR LF, CR
Terminators == {"", "\n", "\r\n", "\r"}

\* f1|f2|...|fn|
RECURSIVE Delimited(_)
Delimited(fs) == IF fs = <<>> THEN "" ELSE Head(fs) \o PIPE \o Delimited(Tail(fs))

\* The line |f1|f2|...|fn| followed by the terminator eol
FieldLine(fs, eol) == PIPE \o Delimited(fs) \o eol

\* The lists of 1 to MaxFields fields
FieldLists == UNION {[1..n -> FieldTexts] : n \in 1..MaxFields}

InitTokens ==
  \E fs \in FieldLists, eol \in Terminators : InitCall([line |-> FieldLine(fs, eol)])

\* parse_sped_line(line)
Tokenize ==
  /\ pc = "ready"
  /\ joined' = [raised |-> FALSE, parts |-> parse_sped_line(call.line)]
  /\ pc' = "tokenized"
  /\ UNCHANGED <<Frame, dataframes, conversion_log, consolidated, call, Batch>>

NextTokens == Tokenize

SpecTokens == InitTokens /\ [][NextTokens]_vars

\* C22: for every line |f1|...|fn| of n >= 1 fields that hold neither the
\* delimiter nor a line terminator, followed by nothing, LF, CR LF or CR,
\* parse_sped_line does not raise and returns f1, ..., fn in order, the
\* empty fields among them included, first and last too.
C22_Theorem ==
  pc = "tokenized" =>
    /\ ~joined.raised
    /\ \A fs \in FieldLists, eol \in Terminators :
         call.line = FieldLine(fs, eol) => joined.parts = fs

\* An empty first field and an empty last field, before CR LF
C22_Witness ==
  /\ pc = "tokenized"
  /\ call.line = "||a||\r\n"
  /\ joined.parts = <<"", "a", "">>

(***************************************************************************)
(* C23.  The required-field check (validators.validate_registro).          *)
(***************************************************************************)
\* Campos obrigatorios por tipo de registro
REQUIRED_FIELDS ==
  [C100 |-> <<"IND_OPER", "IND_EMIT", "COD_PART", "COD_MOD", "NUM_DOC", "DT_DOC">>,
   C170 |-> <<"NUM_ITEM", "COD_ITEM", "QTD", "VL_ITEM">>,
   D100 |-> <<"IND_OPER", "IND_EMIT", "COD_PART", "COD_MOD", "NUM_DOC", "DT_DOC">>,
   A100 |-> <<"IND_OPER", "IND_EMIT", "COD_PART", "NUM_DOC", "DT_DOC">>,
   F100 |-> <<"IND_OPER", "COD_PART", "DT_OPER">>,
   C500 |-> <<"COD_PART", "COD_MOD", "NUM_DOC", "DT_DOC">>,
   D500 |-> <<"IND_OPER", "IND_EMIT", "COD_PART", "COD_MOD", "NUM_DOC", "DT_DOC">>,
   D700 |-> <<"IND_OPER", "IND_EMIT", "COD_PART", "COD_MOD", "NUM_DOC", "DT_DOC">>]

\* None.  No text of the model holds the delimiter at both ends.
None == "|None|"

\* sep.join(names)
RECURSIVE Join(_, _)
Join(sep, names) ==
  IF names = <<>> THEN ""
  ELSE IF Len(names) = 1 THEN names[1]
  ELSE names[1] \o sep \o Join(sep, Tail(names))

\* The attributes and the message of SpedValidationError(message, registro,
\* campo, valor)
SpedValidationError(message, registro, campo, valor) ==
  LET details ==
        (IF registro # None /\ registro # "" THEN <<"Registro: " \o registro>> ELSE <<>>)
        \o (IF campo # None /\ campo # "" THEN <<"Campo: " \o campo>> ELSE <<>>)
        \o (IF valor # None /\ valor # "" THEN <<"Valor: " \o valor>> ELSE <<>>)
  IN  [registro |-> registro, campo |-> campo, valor |-> valor,
       message |-> IF details # <<>>
                     THEN message \o " (" \o Join(", ", details) \o ")"
                     ELSE message]

\* not value or not str(value).strip(), for value = fields.get(field_name, '')
IsMissingField(fields, field_name) ==
  field_name \notin DOMAIN fields \/ fields[field_name] = "" \/ IsBlank(fields[field_name])

\* validate_registro: [raised, value] when it returns, [raised, error] when
\* it raises
validate_registro(registro, fields, strict) ==
  IF registro \notin DOMAIN REQUIRED_FIELDS THEN [raised |-> FALSE, value |-> <<>>]
  ELSE LET missing_fields ==
             SelectSeq(REQUIRED_FIELDS[registro],
                       LAMBDA field_name : IsMissingField(fields, field_name))
       IN  IF strict /\ missing_fields # <<>>
             THEN [raised |-> TRUE,
                   error |-> SpedValidationError(
                               "Campos obrigatórios vazios: " \o Join(", ", missing_fields),
                               registro, None, None)]
             ELSE [raised |-> FALSE, value |-> missing_fields]

\* The record codes of the calls: two with required fields, one without
ValidatedCodes == {"F100", "C170", "Z999"}

\* The values of a field: empty, blank, filled
FieldValues == {"", " ", "7"}

\* The dictionaries of fields of a call for a record code: some of the
\* required fields, each with a value
FieldDicts(registro) ==
  UNION {[names -> FieldValues] :
           names \in SUBSET (IF registro \in DOMAIN REQUIRED_FIELDS
                               THEN Range(REQUIRED_FIELDS[registro]) ELSE {"NOME"})}

InitValidate ==
  \E registro \in ValidatedCodes, strict \in BOOLEAN :
    \E fields \in FieldDicts(registro) :
      InitCall([registro |-> registro, fields |-> fields, strict |-> strict])

\* validate_registro(registro, fields, strict)
Validate ==
  /\ pc = "ready"
  /\ joined' = validate_registro(call.registro, call.fields, call.strict)
  /\ pc' = IF joined'.raised THEN "raised" ELSE "validated"
  /\ UNCHANGED <<Frame, dataframes, conversion_log, consolidated, call, Batch>>

NextValidate == Validate

SpecValidate == InitValidate /\ [][NextValidate]_vars

\* The required fields of the call's record code that the call's fields
\* lack or hold empty or blank, in the order of the registry
MissingOfCall ==
  IF call.registro \in DOMAIN REQUIRED_FIELDS
    THEN SelectSeq(REQUIRED_FIELDS[call.registro],
                   LAMBDA n : n \notin DOMAIN call.fields \/ IsBlank(call.fields[n]))
    ELSE <<>>

\* C23 as the specification states it: without strict the check returns the
\* missing required fields and does not raise; with strict and a missing
\* field it raises an error that carries the record code, a missing field
\* and the value that field has.
C23_AsStated ==
  pc \in {"validated", "raised"} =>
    /\ ~call.strict => (~joined.raised /\ joined.value = MissingOfCall)
    /\ (call.strict /\ MissingOfCall = <<>>) => (~joined.raised /\ joined.value = <<>>)
    /\ (call.strict /\ MissingOfCall # <<>>) =>
         /\ joined.raised
         /\ joined.error.registro = call.registro
         /\ joined.error.campo \in Range(MissingOfCall)
         /\ joined.error.valor = IF joined.error.campo \in DOMAIN call.fields
                                   THEN call.fields[joined.error.campo] ELSE ""

\* What the check does: the list without strict, and with strict an error
\* that carries the record code, and neither a field nor a value
ValidateOutcome ==
  pc \in {"validated", "raised"} =>
    /\ ~call.strict => (~joined.raised /\ joined.value = MissingOfCall)
    /\ (call.strict /\ MissingOfCall = <<>>) => (~joined.raised /\ joined.value = <<>>)
    /\ (call.strict /\ MissingOfCall # <<>>) =>
         /\ joined.raised
         /\ joined.error.registro = call.registro
         /\ joined.error.campo = None
         /\ joined.error.valor = None

(***************************************************************************)
(* C24.  A skipped line changes the count of skipped lines only.           *)
(***************************************************************************)
\* The loop of parse visits a line that is blank or does not start with the
\* delimiter
SkipStep ==
  /\ pc = "parsing"
  /\ line_number < Len(file)
  /\ line_number' = line_number + 1
  /\ \/ \A i \in 1..Len(file[line_number + 1]) : CharAt(file[line_number + 1], i) \in Whitespace
     \/ CharAt(file[line_number + 1], 1) # PIPE

C24_Step ==
  SkipStep =>
    /\ metrics' = [metrics EXCEPT !.skipped_lines = @ + 1]
    /\ rows' = rows
    /\ indices' = indices
    /\ dataframes' = dataframes
    /\ pc' = pc

\* C24: a line that is blank or whose first character is not the delimiter
\* adds 1 to the count of skipped lines and changes no other metric, no row,
\* no counter and no table, and does not end the pass.
C24_Theorem == [][C24_Step]_vars

\* A blank line and a line without the leading delimiter between two parents
C24_Witness ==
  /\ pc = "parsed"
  /\ file = FileOfKinds(<<"P", "blank", "nopipe", "P">>)
  /\ metrics.skipped_lines = 2
  /\ metrics.processed_lines = 2
  /\ metrics.error_lines = 0
  /\ metrics.registros_por_tipo = ("C100" :> 2)
  /\ Len(rows["C100"]) = 2
  /\ indices["c100"] = 1

(***************************************************************************)
(* C26.  The list of warnings of the metrics.                              *)
(***************************************************************************)
\* Most calls of add_warning of the warning scenario.
MaxWarnings == 102

\* The warnings of a caller: one text per line number, or three texts in turn
WarningKinds == {"numbered", "cycle"}

\* The n-th warning a caller of the given kind adds
WarningText(kind, n) ==
  IF kind = "numbered" THEN "Linha " \o ToStr(n) ELSE "Aviso " \o ToStr(n % 3)

InitWarnings == \E kind \in WarningKinds : InitCall([kind |-> kind, added |-> 0])

\* metrics.add_warning(warning)
AddWarning ==
  /\ pc = "ready"
  /\ call.added < MaxWarnings
  /\ metrics' = add_warning(metrics, WarningText(call.kind, call.added + 1))
  /\ call' = [call EXCEPT !.added = @ + 1]
  /\ UNCHANGED <<file, strict_mode, pc, line_number, Registries, rows, indices, record_actions,
                 dataframes, conversion_log, consolidated, joined, Batch>>

NextWarnings == AddWarning

SpecWarnings == InitWarnings /\ [][NextWarnings]_vars

\* C26: after any number of calls of add_warning the list holds at most 100
\* warnings: all of them while no more than 100 were added, then the 100
\* added last, in the order they were added.
C26_Theorem ==
  LET kept == IF call.added < WarningCap THEN call.added ELSE WarningCap
  IN  /\ Len(metrics.warnings) <= 100
      /\ metrics.warnings =
           [i \in 1..kept |-> WarningText(call.kind, call.added - kept + i)]

\* 102 warnings added: the first two are gone
C26_Witness ==
  /\ call = [kind |-> "numbered", added |-> 102]
  /\ Len(metrics.warnings) = 100
  /\ metrics.warnings[1] = "Linha 3"
  /\ metrics.warnings[100] = "Linha 102"

(***************************************************************************)
(* C27.  parse() called again on the same parser.                          *)
(***************************************************************************)
\* Longest input file, in lines, of the scenario of the second call.
MaxAgainLines == 3

\* A parent, a child, a blank line
AgainKinds == {"P", "A", "blank"}

InitAgain ==
  /\ InitParser
  /\ file \in FilesOf(AgainKinds, MaxAgainLines)
  /\ strict_mode = FALSE

\* The caller keeps the tables parse() returned and calls parse() again on
\* the same parser: parse assigns neither self.rows nor self.indices nor
\* self.metrics, which are those the first call left
ParseAgain ==
  /\ pc = "parsed"
  /\ results = <<>>
  /\ results' = <<dataframes>>
  /\ dataframes' = <<>>
  /\ line_number' = 0
  /\ pc' = "ready"
  /\ UNCHANGED <<file, strict_mode, Registries, rows, indices, record_actions, metrics,
                 conversion_log, consolidated, call, joined, input_paths, combined>>

NextAgain ==
  \/ ParseOpen
  \/ ParseLine
  \/ ParseFinish
  \/ ParseAgain

SpecAgain == InitAgain /\ [][NextAgain]_vars

\* C27 as the specification states it: every call of parse() starts from
\* counters at -1 and from no rows, and the second call on the same parser
\* over the same file returns tables equal to those of the first call.
C27_AsStated ==
  /\ pc = "ready" =>
       /\ indices = InitialIndices
       /\ \A code \in DOMAIN rows : rows[code] = <<>>
  /\ (pc = "parsed" /\ results # <<>>) => dataframes = results[1]

(***************************************************************************)
(* C28.  The lines visited are processed, skipped or in error.             *)
(***************************************************************************)
\* The lines the metrics count
Counted(m) == m.processed_lines + m.skipped_lines + m.error_lines

C28_Partition ==
  ~strict_mode =>
    /\ Counted(metrics) = line_number
    /\ pc \in {"parsed", "converted", "done", "joined"} =>
         /\ Counted(metrics) = metrics.total_lines
         /\ metrics.total_lines = Len(file)

C28_Step ==
  (~strict_mode /\ line_number' = line_number + 1) =>
    <<metrics'.processed_lines - metrics.processed_lines,
      metrics'.skipped_lines - metrics.skipped_lines,
      metrics'.error_lines - metrics.error_lines>>
      \in {<<1, 0, 0>>, <<0, 1, 0>>, <<0, 0, 1>>}

\* C28: without strict mode, after every line the processed, skipped and
\* error counts add up to the number of lines visited, and after the pass
\* to total_lines, the number of lines of the file; each line visited adds
\* 1 to exactly one of the three counts.
C28_Theorem == [](C28_Partition) /\ [][C28_Step]_vars

\* One line of each fate, and an unknown code
C28_Witness ==
  /\ ~strict_mode
  /\ pc = "parsed"
  /\ file = FileOfKinds(<<"P", "short", "blank", "unk">>)
  /\ metrics.processed_lines = 2
  /\ metrics.skipped_lines = 1
  /\ metrics.error_lines = 1
  /\ metrics.total_lines = 4

(***************************************************************************)
(* C29.  The record code of a row and its first field.                     *)
(***************************************************************************)
\* Longest input file, in lines, of the scenario of the first field.
MaxGluedLines == 3

\* A parent, a child, and a line whose first field is longer than a code
GluedKinds == {"P", "A", "glued"}

InitGlued ==
  /\ InitParser
  /\ file \in FilesOf(GluedKinds, MaxGluedLines)
  /\ strict_mode \in BOOLEAN

SpecGlued == InitGlued /\ [][Next]_vars

\* C29 as the specification states it: the record code taken from the 4
\* characters after the first delimiter is the first token of the line, so
\* every row accumulated for a code, and every row of its table, holds the
\* code as its first value.
C29_AsStated ==
  /\ \A q \in 1..line_number :
       (~IsSkipped(file[q]) /\ ~LineTooShort(file[q]))
         => RegistroOf(file[q]) = parse_sped_line(file[q])[1]
  /\ \A code \in DOMAIN rows : \A k \in 1..Len(rows[code]) : rows[code][k][1] = code
  /\ \A code \in DOMAIN dataframes : \A r \in 1..Len(dataframes[code].data) :
       Cell(dataframes[code], r, "REG") = code

(***************************************************************************)
(* C25.  The column names of a consolidated table.                         *)
(***************************************************************************)
\* The names the columns of the table of `code`, without the columns
\* `dropped`, have under the prefix code_
Prefixed(dfs, code, dropped) ==
  IF code \in DOMAIN dfs /\ ~IsEmpty(dfs[code])
    THEN {code \o "_" \o dfs[code].columns[i] :
            i \in {j \in 1..Len(dfs[code].columns) : dfs[code].columns[j] \notin dropped}}
    ELSE {}

\* The columns of a table are the names `own` of the parent's table, one
\* column per field of each joined child code under the child's prefix, and
\* one column per field of the header code under the header's prefix, each
\* once; no child gives its REG or its copy of the join key
NamedByOrigin(df, own, g) ==
  LET jc == JoinedChildren(dataframes, g)
      child(k) == Prefixed(dataframes, jc[k], {"REG", g.parent_idx_name})
      header == Prefixed(dataframes, g.header, {"REG", g.header_idx_name})
  IN  /\ \A i, j \in 1..Len(df.columns) : i # j => df.columns[i] # df.columns[j]
      /\ Range(df.columns) = own \cup header \cup UNION {child(k) : k \in 1..Len(jc)}
      /\ Len(df.columns)
           = Cardinality(own) + Cardinality(header)
               + SumOver([k \in 1..Len(jc) |-> Cardinality(child(k))], 1..Len(jc))
      /\ \A k \in 1..Len(g.children) :
           /\ ~HasCol(df, g.children[k] \o "_REG")
           /\ ~HasCol(df, g.children[k] \o "_" \o g.parent_idx_name)
           /\ \A i \in 1..Len(LAYOUTS[g.children[k]]) :
                LAYOUTS[g.children[k]][i] \in Range(df.columns)
                  => LAYOUTS[g.children[k]][i] \in own

\* C25: in the table process_single_file returns for a group whose parent
\* has rows, the column names are pairwise distinct; they are the parent's
\* columns without the two index columns, the columns of each joined child
\* code X as X_<column>, and the columns of the header code H as H_<column>;
\* no child's REG and no child's copy of the parent index is among them.
C25_Theorem ==
  pc = "done" =>
    \A gi \in 1..Len(GroupOrder) :
      LET g == GROUPS[GroupOrder[gi]]
      IN  ~IsEmpty(dataframes[g.parent]) =>
            NamedByOrigin(consolidated[SheetName(GroupOrder[gi])],
                          Range(dataframes[g.parent].columns)
                            \ {g.parent_idx_name, g.header_idx_name},
                          g)

\* A header, a parent and two rows of a child code
C25_Witness ==
  /\ pc = "done"
  /\ file = FileOfKinds(<<"H", "P", "A", "A">>)
  /\ LET df == consolidated["C_CONSOLIDADO"]
     IN  /\ {"REG", "C010_CNPJ", "C195_COD_OBS", "C195_TXT_COMPL"} \subseteq Range(df.columns)
         /\ Range(df.columns) \cap {"C195_REG", "C010_REG", "C100_INDEX", "C010_INDEX",
                                    "C195_C100_INDEX", "COD_OBS"} = {}

(***************************************************************************)
(* C30.  The header join keeps the rows of its input.                      *)
(***************************************************************************)
\* attach_header, called as process_single_file calls it for group g on the
\* table c, returns the rows of c, in order, with their values
KeepsRows(c, g) ==
  LET h == attach_header(c, g.header \in DOMAIN dataframes,
                         IF g.header \in DOMAIN dataframes
                           THEN dataframes[g.header] ELSE EmptyFrame,
                         g.header_idx_name, g.header \o "_")
  IN  /\ ~h.raised
      /\ Len(h.df.data) = Len(c.data)
      /\ \A r \in 1..Len(c.data) : \A i \in 1..Len(c.columns) :
           Cell(h.df, r, c.columns[i]) = AsStr(c.data[r][i])
             \/ Cell(h.df, r, c.columns[i]) = c.data[r][i]

\* No two rows of the table hold the same value in the column col
UniqueIn(df, col) ==
  HasCol(df, col) =>
    \A j, k \in 1..Len(df.data) : j # k => Cell(df, j, col) # Cell(df, k, col)

\* C30: for every group, the rows of the header's table carry pairwise
\* different header indices, attach_header returns as many rows as the
\* consolidated table it is given, the same rows in the same order, and the
\* table process_single_file returns has that many rows.
C30_Theorem ==
  pc \in {"converted", "done"} =>
    \A gi \in 1..Len(GroupOrder) :
      LET g == GROUPS[GroupOrder[gi]]
          c == consolidate_group_new(dataframes, g.parent, g.children, g.parent_idx_name)
      IN  /\ g.header \in DOMAIN dataframes => UniqueIn(dataframes[g.header], g.header_idx_name)
          /\ ~c.raised
          /\ ~IsEmpty(c.df) => KeepsRows(c.df, g)
          /\ pc = "done" =>
               Len(consolidated[SheetName(GroupOrder[gi])].data) = Len(c.df.data)

\* Two headers, each followed by a parent: one row per parent, each with the
\* fields of its header
C30_Witness ==
  /\ pc = "done"
  /\ file = FileOfKinds(<<"H", "P", "H", "P">>)
  /\ LET df == consolidated["C_CONSOLIDADO"]
     IN  /\ Len(df.data) = 2
         /\ Cell(df, 1, "C010_CNPJ") = "1"
         /\ Cell(df, 2, "C010_CNPJ") = "3"
====
